---------------------------- MODULE Spec2Model ----------------------------
(***************************************************************************)
(* A model of the rups / nut-client NUT protocol client: the sentence      *)
(* tokenizer, the sentence codec, the error classification, the sentence   *)
(* stream and the blocking connection driver.                              *)
(*                                                                         *)
(* A Rust String is modelled as a sequence of one-character strings, a     *)
(* Vec<String> as a sequence of such sequences.                            *)
(***************************************************************************)
EXTENDS Integers, Sequences, FiniteSets, TLC

VARIABLES
    \* the tokenizer round trip
    tk_pc, tk_in, tk_line, tk_out,
    \* the codec round trip
    cd_pc, cd_cat, cd_s, cd_words, cd_dec, cd_back,
    \* the error classification
    er_pc, er_a, er_b, er_ka, er_kb,
    \* the sentence stream
    ss_pc, ss_stream, ss_call,
    \* the connection driver
    cn_pc, cn_wire, cn_closed, cn_ops, cn_last,
    \* the opening of a connection
    op_pc, op_cfg, op_feature, op_tls, op_hs, op_written, op_res,
    op_api, op_log, op_wire, op_calls, op_last,
    \* read_sentences_until, one read at a time
    un_pc, un_api, un_iter, un_reads, un_len, un_res,
    \* a connection that meets transport errors
    fl_pc, fl_link, fl_wire, fl_failed, fl_ops, fl_last,
    \* callers of one connection
    ex_api, ex_borrow, ex_run, ex_log, ex_ops,
    \* the blocking and the tokio connection side by side
    pr_pc, pr_build, pr_ssl, pr_side, pr_op, pr_ops,
    \* a UpsdName parsed, displayed and parsed again
    hs_pc, hs_in, hs_res, hs_shown, hs_back,
    \* a variable definition and a variable
    vd_pc, vd_name, vd_tags, vd_value, vd_def, vd_len, vd_var, vd_shown,
    \* the layers of a stream and the bytes read through them
    bf_pc, bf_api, bf_nl, bf_bufs, bf_net, bf_got, bf_lost, bf_last, bf_prev,
    bf_ops,
    \* the writes and flushes of a request
    wr_pc, wr_call, wr_ops,
    \* a list of words decoded
    dc_pc, dc_cat, dc_raw, dc_res,
    \* the layers of the stream of a driver through its opening
    sh_pc, sh_api, sh_surface, sh_cfg, sh_feature, sh_stream, sh_tls,
    sh_upgrades, sh_reads, sh_ops,
    \* read_list of a connection, line by line
    ll_pc, ll_api, ll_len, ll_reads, ll_res

tokVars == <<tk_pc, tk_in, tk_line, tk_out>>
codecVars == <<cd_pc, cd_cat, cd_s, cd_words, cd_dec, cd_back>>

errVars == <<er_pc, er_a, er_b, er_ka, er_kb>>

streamVars == <<ss_pc, ss_stream, ss_call>>

connVars == <<cn_pc, cn_wire, cn_closed, cn_ops, cn_last>>

openVars ==
    <<op_pc, op_cfg, op_feature, op_tls, op_hs, op_written, op_res, op_api,
      op_log, op_wire, op_calls, op_last>>

untilVars == <<un_pc, un_api, un_iter, un_reads, un_len, un_res>>

failVars == <<fl_pc, fl_link, fl_wire, fl_failed, fl_ops, fl_last>>

exclVars == <<ex_api, ex_borrow, ex_run, ex_log, ex_ops>>

pairVars == <<pr_pc, pr_build, pr_ssl, pr_side, pr_op, pr_ops>>

hostVars == <<hs_pc, hs_in, hs_res, hs_shown, hs_back>>

bufVars ==
    <<bf_pc, bf_api, bf_nl, bf_bufs, bf_net, bf_got, bf_lost, bf_last, bf_prev,
      bf_ops>>

writeVars == <<wr_pc, wr_call, wr_ops>>

decodeVars == <<dc_pc, dc_cat, dc_raw, dc_res>>

shapeVars ==
    <<sh_pc, sh_api, sh_surface, sh_cfg, sh_feature, sh_stream, sh_tls,
      sh_upgrades, sh_reads, sh_ops>>

listVars == <<ll_pc, ll_api, ll_len, ll_reads, ll_res>>

varsVars ==
    <<vd_pc, vd_name, vd_tags, vd_value, vd_def, vd_len, vd_var, vd_shown>>

vars ==
    <<tokVars, codecVars, errVars, streamVars,
      connVars, openVars, untilVars, failVars,
      exclVars, hostVars, varsVars, pairVars,
      bufVars, writeVars, decodeVars, shapeVars,
      listVars>>

\* What each subsystem leaves alone.
notTok ==
    <<codecVars, errVars, streamVars, connVars,
      openVars, untilVars, failVars, exclVars,
      hostVars, varsVars, pairVars, bufVars,
      writeVars, decodeVars, shapeVars, listVars>>

notCodec ==
    <<tokVars, errVars, streamVars, connVars,
      openVars, untilVars, failVars, exclVars,
      hostVars, varsVars, pairVars, bufVars,
      writeVars, decodeVars, shapeVars, listVars>>

notErr ==
    <<tokVars, codecVars, streamVars, connVars,
      openVars, untilVars, failVars, exclVars,
      hostVars, varsVars, pairVars, bufVars,
      writeVars, decodeVars, shapeVars, listVars>>

notStream ==
    <<tokVars, codecVars, errVars, connVars,
      openVars, untilVars, failVars, exclVars,
      hostVars, varsVars, pairVars, bufVars,
      writeVars, decodeVars, shapeVars, listVars>>

notConn ==
    <<tokVars, codecVars, errVars, streamVars,
      openVars, untilVars, failVars, exclVars,
      hostVars, varsVars, pairVars, bufVars,
      writeVars, decodeVars, shapeVars, listVars>>

notOpen ==
    <<tokVars, codecVars, errVars, streamVars,
      connVars, untilVars, failVars, exclVars,
      hostVars, varsVars, pairVars, bufVars,
      writeVars, decodeVars, shapeVars, listVars>>

notUntil ==
    <<tokVars, codecVars, errVars, streamVars,
      connVars, openVars, failVars, exclVars,
      hostVars, varsVars, pairVars, bufVars,
      writeVars, decodeVars, shapeVars, listVars>>

notFail ==
    <<tokVars, codecVars, errVars, streamVars,
      connVars, openVars, untilVars, exclVars,
      hostVars, varsVars, pairVars, bufVars,
      writeVars, decodeVars, shapeVars, listVars>>

notExcl ==
    <<tokVars, codecVars, errVars, streamVars,
      connVars, openVars, untilVars, failVars,
      hostVars, varsVars, pairVars, bufVars,
      writeVars, decodeVars, shapeVars, listVars>>

notHost ==
    <<tokVars, codecVars, errVars, streamVars,
      connVars, openVars, untilVars, failVars,
      exclVars, varsVars, pairVars, bufVars,
      writeVars, decodeVars, shapeVars, listVars>>

notVars ==
    <<tokVars, codecVars, errVars, streamVars,
      connVars, openVars, untilVars, failVars,
      exclVars, hostVars, pairVars, bufVars,
      writeVars, decodeVars, shapeVars, listVars>>

notPair ==
    <<tokVars, codecVars, errVars, streamVars,
      connVars, openVars, untilVars, failVars,
      exclVars, hostVars, varsVars, bufVars,
      writeVars, decodeVars, shapeVars, listVars>>

notBuf ==
    <<tokVars, codecVars, errVars, streamVars,
      connVars, openVars, untilVars, failVars,
      exclVars, hostVars, varsVars, pairVars,
      writeVars, decodeVars, shapeVars, listVars>>

notWrite ==
    <<tokVars, codecVars, errVars, streamVars,
      connVars, openVars, untilVars, failVars,
      exclVars, hostVars, varsVars, pairVars,
      bufVars, decodeVars, shapeVars, listVars>>

notDecode ==
    <<tokVars, codecVars, errVars, streamVars,
      connVars, openVars, untilVars, failVars,
      exclVars, hostVars, varsVars, pairVars,
      bufVars, writeVars, shapeVars, listVars>>

notShape ==
    <<tokVars, codecVars, errVars, streamVars,
      connVars, openVars, untilVars, failVars,
      exclVars, hostVars, varsVars, pairVars,
      bufVars, writeVars, decodeVars, listVars>>

notList ==
    <<tokVars, codecVars, errVars, streamVars,
      connVars, openVars, untilVars, failVars,
      exclVars, hostVars, varsVars, pairVars,
      bufVars, writeVars, decodeVars, shapeVars>>

(***************************************************************************)
(* Strings                                                                 *)
(***************************************************************************)
NL == "\n"
SP == " "
TAB == "\t"
SQ == "'"
DQ == "\""
BS == "\\"
HASH == "#"

\* Longest token drawn for the tokenizer round trip.
MaxTokLen == 2

\* The characters tokens are drawn from: a letter, the blank, both quotes,
\* the backslash, a shell metacharacter and the comment character.
TokAlphabet == {"a", SP, SQ, DQ, BS, "$", HASH}

RECURSIVE StrsUpTo(_, _)
StrsUpTo(A, n) ==
    IF n = 0 THEN {<<>>}
    ELSE LET shorter == StrsUpTo(A, n - 1)
         IN  shorter \cup {Append(s, c) : s \in shorter, c \in A}

RECURSIVE Flatten(_)
Flatten(ss) ==
    IF ss = <<>> THEN <<>> ELSE Head(ss) \o Flatten(Tail(ss))

(***************************************************************************)
(* shell_words::split, as called by split_sentence and parse_line.         *)
(* The state machine of the crate: Delimiter, Backslash, Unquoted,         *)
(* UnquotedBackslash, SingleQuoted, DoubleQuoted, DoubleQuotedBackslash,   *)
(* Comment.  The result is [ok, words]; ok = FALSE is ParseError.          *)
(***************************************************************************)
IsBlank(c) == c \in {SP, TAB, NL}

SplitFail == [ok |-> FALSE, words |-> <<>>]

RECURSIVE SplitRun(_, _, _, _, _)
SplitRun(s, i, st, word, words) ==
    IF i > Len(s)
    THEN \* the input is exhausted (c = None)
         CASE st \in {"Delimiter", "Comment"} -> [ok |-> TRUE, words |-> words]
           [] st = "Unquoted" -> [ok |-> TRUE, words |-> Append(words, word)]
           [] st \in {"Backslash", "UnquotedBackslash"} ->
                 [ok |-> TRUE, words |-> Append(words, Append(word, BS))]
           [] OTHER -> SplitFail
    ELSE LET c == s[i] IN
         CASE st = "Delimiter" ->
                 IF c = SQ THEN SplitRun(s, i + 1, "SingleQuoted", word, words)
                 ELSE IF c = DQ THEN SplitRun(s, i + 1, "DoubleQuoted", word, words)
                 ELSE IF c = BS THEN SplitRun(s, i + 1, "Backslash", word, words)
                 ELSE IF IsBlank(c) THEN SplitRun(s, i + 1, "Delimiter", word, words)
                 ELSE IF c = HASH THEN SplitRun(s, i + 1, "Comment", word, words)
                 ELSE SplitRun(s, i + 1, "Unquoted", Append(word, c), words)
           [] st = "Backslash" ->
                 IF c = NL THEN SplitRun(s, i + 1, "Delimiter", word, words)
                 ELSE SplitRun(s, i + 1, "Unquoted", Append(word, c), words)
           [] st = "Unquoted" ->
                 IF c = SQ THEN SplitRun(s, i + 1, "SingleQuoted", word, words)
                 ELSE IF c = DQ THEN SplitRun(s, i + 1, "DoubleQuoted", word, words)
                 ELSE IF c = BS THEN SplitRun(s, i + 1, "UnquotedBackslash", word, words)
                 ELSE IF IsBlank(c)
                      THEN SplitRun(s, i + 1, "Delimiter", <<>>, Append(words, word))
                 ELSE SplitRun(s, i + 1, "Unquoted", Append(word, c), words)
           [] st = "UnquotedBackslash" ->
                 IF c = NL THEN SplitRun(s, i + 1, "Unquoted", word, words)
                 ELSE SplitRun(s, i + 1, "Unquoted", Append(word, c), words)
           [] st = "SingleQuoted" ->
                 IF c = SQ THEN SplitRun(s, i + 1, "Unquoted", word, words)
                 ELSE SplitRun(s, i + 1, "SingleQuoted", Append(word, c), words)
           [] st = "DoubleQuoted" ->
                 IF c = DQ THEN SplitRun(s, i + 1, "Unquoted", word, words)
                 ELSE IF c = BS
                      THEN SplitRun(s, i + 1, "DoubleQuotedBackslash", word, words)
                 ELSE SplitRun(s, i + 1, "DoubleQuoted", Append(word, c), words)
           [] st = "DoubleQuotedBackslash" ->
                 IF c = NL THEN SplitRun(s, i + 1, "DoubleQuoted", word, words)
                 \* the crate also unescapes the backquote, which no alphabet
                 \* of this model holds
                 ELSE IF c \in {"$", DQ, BS}
                      THEN SplitRun(s, i + 1, "DoubleQuoted", Append(word, c), words)
                 ELSE SplitRun(s, i + 1, "DoubleQuoted",
                               Append(Append(word, BS), c), words)
           [] st = "Comment" ->
                 IF c = NL THEN SplitRun(s, i + 1, "Delimiter", word, words)
                 ELSE SplitRun(s, i + 1, "Comment", word, words)

ShellSplit(s) == SplitRun(s, 1, "Delimiter", <<>>, <<>>)

(***************************************************************************)
(* shell_words::quote and shell_words::join, as called by join_sentence    *)
(* and by Command's Display.                                               *)
(***************************************************************************)
SafeChars ==
    {"a", "b", "c", "d", "e", "f", "g", "h", "i", "j", "k", "l", "m",
     "n", "o", "p", "q", "r", "s", "t", "u", "v", "w", "x", "y", "z",
     "A", "B", "C", "D", "E", "F", "G", "H", "I", "J", "K", "L", "M",
     "N", "O", "P", "Q", "R", "S", "T", "U", "V", "W", "X", "Y", "Z",
     "0", "1", "2", "3", "4", "5", "6", "7", "8", "9",
     "+", "-", ".", "/", ":", "@", "_", ",", "="}

RECURSIVE EscapeSingle(_)
EscapeSingle(w) ==
    IF w = <<>> THEN <<>>
    ELSE (IF Head(w) = SQ THEN <<SQ, BS, SQ, SQ>> ELSE <<Head(w)>>)
         \o EscapeSingle(Tail(w))

ShellQuote(w) ==
    IF w = <<>> THEN <<SQ, SQ>>
    ELSE IF \A i \in 1..Len(w) : w[i] \in SafeChars THEN w
    ELSE <<SQ>> \o EscapeSingle(w) \o <<SQ>>

JoinTwoBlanks(ws) ==
    Flatten([i \in 1..Len(ws) |->
                IF i = 1 THEN ShellQuote(ws[i]) ELSE <<SP, SP>> \o ShellQuote(ws[i])])

ShellJoin(ws) ==
    Flatten([i \in 1..Len(ws) |->
                IF i = 1 THEN ShellQuote(ws[i]) ELSE <<SP>> \o ShellQuote(ws[i])])

RECURSIVE TrimEndNewlines(_)
TrimEndNewlines(s) ==
    IF s # <<>> /\ s[Len(s)] = NL THEN TrimEndNewlines(SubSeq(s, 1, Len(s) - 1))
    ELSE s

\* proto::util::split_sentence: None is [ok |-> FALSE].
split_sentence(sentence) == ShellSplit(TrimEndNewlines(sentence))

\* proto::util::join_sentence
join_sentence(words) == ShellJoin(words) \o <<NL>>

(***************************************************************************)
(* The word vocabulary and the sentence codec (proto).                     *)
(*                                                                         *)
(* A Word is the name of its enum variant, "Arg" or "EOL"; an Option<Word> *)
(* is a Word or "None"; what Vec::get gives past the end is "Absent".      *)
(***************************************************************************)
\* impl_words!: the protocol words and their text.
KeywordText ==
       "Begin" :> <<"B", "E", "G", "I", "N">>
    @@ "Client" :> <<"C", "L", "I", "E", "N", "T">>
    @@ "Cmd" :> <<"C", "M", "D">>
    @@ "CmdDesc" :> <<"C", "M", "D", "D", "E", "S", "C">>
    @@ "Desc" :> <<"D", "E", "S", "C">>
    @@ "End" :> <<"E", "N", "D">>
    @@ "Enum" :> <<"E", "N", "U", "M">>
    @@ "Err" :> <<"E", "R", "R">>
    @@ "Fsd" :> <<"F", "S", "D">>
    @@ "Get" :> <<"G", "E", "T">>
    @@ "Help" :> <<"H", "E", "L", "P">>
    @@ "InstCmd" :> <<"I", "N", "S", "T", "C", "M", "D">>
    @@ "List" :> <<"L", "I", "S", "T">>
    @@ "Login" :> <<"L", "O", "G", "I", "N">>
    @@ "Logout" :> <<"L", "O", "G", "O", "U", "T">>
    @@ "Master" :> <<"M", "A", "S", "T", "E", "R">>
    @@ "NetworkVersion" :> <<"N", "E", "T", "V", "E", "R">>
    @@ "NumLogins" :> <<"N", "U", "M", "L", "O", "G", "I", "N", "S">>
    @@ "Ok" :> <<"O", "K">>
    @@ "Password" :> <<"P", "A", "S", "S", "W", "O", "R", "D">>
    @@ "Range" :> <<"R", "A", "N", "G", "E">>
    @@ "Rw" :> <<"R", "W">>
    @@ "Set" :> <<"S", "E", "T">>
    @@ "StartTLS" :> <<"S", "T", "A", "R", "T", "T", "L", "S">>
    @@ "Type" :> <<"T", "Y", "P", "E">>
    @@ "Ups" :> <<"U", "P", "S">>
    @@ "UpsDesc" :> <<"U", "P", "S", "D", "E", "S", "C">>
    @@ "Username" :> <<"U", "S", "E", "R", "N", "A", "M", "E">>
    @@ "Var" :> <<"V", "A", "R">>
    @@ "Version" :> <<"V", "E", "R", "S", "I", "O", "N">>

\* proto::client: the client-bound sentences, in declaration order.
ClientCatalog ==
    <<
    [name |-> "GenericOk", words |-> <<"Ok", "EOL">>,
     args |-> <<>>, vararg |-> <<>>],
    [name |-> "FsdOk", words |-> <<"Ok", "FsdSet", "EOL">>,
     args |-> <<>>, vararg |-> <<>>],
    [name |-> "StartTLSOk", words |-> <<"Ok", "StartTLS", "EOL">>,
     args |-> <<>>, vararg |-> <<>>],
    [name |-> "LogoutOk", words |-> <<"Ok", "Goodbye">>,
     args |-> <<>>, vararg |-> <<>>],
    [name |-> "RespondErr", words |-> <<"Err", "Arg">>,
     args |-> <<<<1, "message">>>>, vararg |-> <<2, "extras">>],
    [name |-> "RespondNumLogins", words |-> <<"NumLogins", "Arg", "Arg", "EOL">>,
     args |-> <<<<1, "ups_name">>, <<2, "num_logins">>>>, vararg |-> <<>>],
    [name |-> "RespondUpsDesc", words |-> <<"UpsDesc", "Arg", "Arg", "EOL">>,
     args |-> <<<<1, "ups_name">>, <<2, "description">>>>, vararg |-> <<>>],
    [name |-> "RespondVar", words |-> <<"Var", "Arg", "Arg", "Arg", "EOL">>,
     args |-> <<<<1, "ups_name">>, <<2, "var_name">>, <<3, "value">>>>, vararg |-> <<>>],
    [name |-> "RespondType", words |-> <<"Type", "Arg", "Arg">>,
     args |-> <<<<1, "ups_name">>, <<2, "var_name">>>>, vararg |-> <<3, "var_types">>],
    [name |-> "RespondDesc", words |-> <<"Desc", "Arg", "Arg", "Arg", "EOL">>,
     args |-> <<<<1, "ups_name">>, <<2, "var_name">>, <<3, "description">>>>, vararg |-> <<>>],
    [name |-> "RespondCmdDesc", words |-> <<"CmdDesc", "Arg", "Arg", "Arg", "EOL">>,
     args |-> <<<<1, "ups_name">>, <<2, "cmd_name">>, <<3, "description">>>>, vararg |-> <<>>],
    [name |-> "RespondUps", words |-> <<"Ups", "Arg", "Arg", "EOL">>,
     args |-> <<<<1, "ups_name">>, <<2, "description">>>>, vararg |-> <<>>],
    [name |-> "RespondRw", words |-> <<"Rw", "Arg", "Arg", "Arg", "EOL">>,
     args |-> <<<<1, "ups_name">>, <<2, "var_name">>, <<3, "value">>>>, vararg |-> <<>>],
    [name |-> "RespondCmd", words |-> <<"Cmd", "Arg", "Arg", "EOL">>,
     args |-> <<<<1, "ups_name">>, <<2, "cmd_name">>>>, vararg |-> <<>>],
    [name |-> "RespondEnum", words |-> <<"Enum", "Arg", "Arg", "Arg", "EOL">>,
     args |-> <<<<1, "ups_name">>, <<2, "var_name">>, <<3, "enum_value">>>>, vararg |-> <<>>],
    [name |-> "RespondRange", words |-> <<"Range", "Arg", "Arg", "Arg", "Arg", "EOL">>,
     args |-> <<<<1, "ups_name">>, <<2, "var_name">>, <<3, "min_value">>, <<4, "max_value">>>>, vararg |-> <<>>],
    [name |-> "RespondClient", words |-> <<"Client", "Arg", "Arg", "EOL">>,
     args |-> <<<<1, "ups_name">>, <<2, "client_ip">>>>, vararg |-> <<>>],
    [name |-> "BeginListUps", words |-> <<"Begin", "List", "Ups", "EOL">>,
     args |-> <<>>, vararg |-> <<>>],
    [name |-> "EndListUps", words |-> <<"End", "List", "Ups", "EOL">>,
     args |-> <<>>, vararg |-> <<>>],
    [name |-> "BeginListVar", words |-> <<"Begin", "List", "Var", "Arg", "EOL">>,
     args |-> <<<<3, "ups_name">>>>, vararg |-> <<>>],
    [name |-> "EndListVar", words |-> <<"End", "List", "Var", "Arg", "EOL">>,
     args |-> <<<<3, "ups_name">>>>, vararg |-> <<>>],
    [name |-> "BeginListRw", words |-> <<"Begin", "List", "Rw", "Arg", "EOL">>,
     args |-> <<<<3, "ups_name">>>>, vararg |-> <<>>],
    [name |-> "EndListRw", words |-> <<"End", "List", "Rw", "Arg", "EOL">>,
     args |-> <<<<3, "ups_name">>>>, vararg |-> <<>>],
    [name |-> "BeginListCmd", words |-> <<"Begin", "List", "Cmd", "Arg", "EOL">>,
     args |-> <<<<3, "ups_name">>>>, vararg |-> <<>>],
    [name |-> "EndListCmd", words |-> <<"End", "List", "Cmd", "Arg", "EOL">>,
     args |-> <<<<3, "ups_name">>>>, vararg |-> <<>>],
    [name |-> "BeginListEnum", words |-> <<"Begin", "List", "Enum", "Arg", "Arg", "EOL">>,
     args |-> <<<<3, "ups_name">>, <<4, "var_name">>>>, vararg |-> <<>>],
    [name |-> "EndListEnum", words |-> <<"End", "List", "Enum", "Arg", "Arg", "EOL">>,
     args |-> <<<<3, "ups_name">>, <<4, "var_name">>>>, vararg |-> <<>>],
    [name |-> "BeginListRange", words |-> <<"Begin", "List", "Range", "Arg", "Arg", "EOL">>,
     args |-> <<<<3, "ups_name">>, <<4, "var_name">>>>, vararg |-> <<>>],
    [name |-> "EndListRange", words |-> <<"End", "List", "Range", "Arg", "Arg", "EOL">>,
     args |-> <<<<3, "ups_name">>, <<4, "var_name">>>>, vararg |-> <<>>],
    [name |-> "BeginListClient", words |-> <<"Begin", "List", "Client", "Arg", "EOL">>,
     args |-> <<<<3, "ups_name">>>>, vararg |-> <<>>],
    [name |-> "EndListClient", words |-> <<"End", "List", "Client", "Arg", "EOL">>,
     args |-> <<<<3, "ups_name">>>>, vararg |-> <<>>]
    >>

\* proto::server: the server-bound sentences, in declaration order.
ServerCatalog ==
    <<
    [name |-> "QueryNumLogins", words |-> <<"Get", "NumLogins", "Arg", "EOL">>,
     args |-> <<<<2, "ups_name">>>>, vararg |-> <<>>],
    [name |-> "QueryUpsDesc", words |-> <<"Get", "UpsDesc", "Arg", "EOL">>,
     args |-> <<<<2, "ups_name">>>>, vararg |-> <<>>],
    [name |-> "QueryVar", words |-> <<"Get", "Var", "Arg", "Arg", "EOL">>,
     args |-> <<<<2, "ups_name">>, <<3, "var_name">>>>, vararg |-> <<>>],
    [name |-> "QueryType", words |-> <<"Get", "Type", "Arg", "Arg", "EOL">>,
     args |-> <<<<2, "ups_name">>, <<3, "var_name">>>>, vararg |-> <<>>],
    [name |-> "QueryDesc", words |-> <<"Get", "Desc", "Arg", "Arg", "EOL">>,
     args |-> <<<<2, "ups_name">>, <<3, "var_name">>>>, vararg |-> <<>>],
    [name |-> "QueryCmdDesc", words |-> <<"Get", "CmdDesc", "Arg", "Arg", "EOL">>,
     args |-> <<<<2, "ups_name">>, <<3, "cmd_name">>>>, vararg |-> <<>>],
    [name |-> "QueryListUps", words |-> <<"List", "Ups", "EOL">>,
     args |-> <<>>, vararg |-> <<>>],
    [name |-> "QueryListVar", words |-> <<"List", "Var", "Arg", "EOL">>,
     args |-> <<<<2, "ups_name">>>>, vararg |-> <<>>],
    [name |-> "QueryListRw", words |-> <<"List", "Rw", "Arg", "EOL">>,
     args |-> <<<<2, "ups_name">>>>, vararg |-> <<>>],
    [name |-> "QueryListCmd", words |-> <<"List", "Cmd", "Arg", "EOL">>,
     args |-> <<<<2, "ups_name">>>>, vararg |-> <<>>],
    [name |-> "QueryListEnum", words |-> <<"List", "Enum", "Arg", "Arg", "EOL">>,
     args |-> <<<<2, "ups_name">>, <<3, "var_name">>>>, vararg |-> <<>>],
    [name |-> "QueryListRange", words |-> <<"List", "Range", "Arg", "Arg", "EOL">>,
     args |-> <<<<2, "ups_name">>, <<3, "var_name">>>>, vararg |-> <<>>],
    [name |-> "QueryListClient", words |-> <<"List", "Client", "Arg", "EOL">>,
     args |-> <<<<2, "ups_name">>>>, vararg |-> <<>>],
    [name |-> "ExecSetVar", words |-> <<"Set", "Var", "Arg", "Arg", "Arg", "EOL">>,
     args |-> <<<<2, "ups_name">>, <<3, "var_name">>, <<4, "value">>>>, vararg |-> <<>>],
    [name |-> "ExecInstCmd", words |-> <<"InstCmd", "Arg", "Arg", "EOL">>,
     args |-> <<<<1, "ups_name">>, <<2, "cmd_name">>>>, vararg |-> <<>>],
    [name |-> "ExecLogout", words |-> <<"Logout", "EOL">>,
     args |-> <<>>, vararg |-> <<>>],
    [name |-> "ExecLogin", words |-> <<"Login", "Arg", "EOL">>,
     args |-> <<<<1, "ups_name">>>>, vararg |-> <<>>],
    [name |-> "ExecMaster", words |-> <<"Master", "Arg", "EOL">>,
     args |-> <<<<1, "ups_name">>>>, vararg |-> <<>>],
    [name |-> "ExecForcedShutDown", words |-> <<"Fsd", "Arg", "EOL">>,
     args |-> <<<<1, "ups_name">>>>, vararg |-> <<>>],
    [name |-> "SetPassword", words |-> <<"Password", "Arg", "EOL">>,
     args |-> <<<<1, "password">>>>, vararg |-> <<>>],
    [name |-> "SetUsername", words |-> <<"Username", "Arg", "EOL">>,
     args |-> <<<<1, "username">>>>, vararg |-> <<>>],
    [name |-> "ExecStartTLS", words |-> <<"StartTLS", "EOL">>,
     args |-> <<>>, vararg |-> <<>>],
    [name |-> "QueryHelp", words |-> <<"Help", "EOL">>,
     args |-> <<>>, vararg |-> <<>>],
    [name |-> "QueryVersion", words |-> <<"Version", "EOL">>,
     args |-> <<>>, vararg |-> <<>>],
    [name |-> "QueryNetworkVersion", words |-> <<"NetworkVersion", "EOL">>,
     args |-> <<>>, vararg |-> <<>>]
    >>

\* The two words proto::client uses that impl_words! of proto/mod.rs does
\* not list: the acknowledgements OK FSD-SET and OK Goodbye.
ExtraKeywordText ==
       "FsdSet" :> <<"F", "S", "D", "-", "S", "E", "T">>
    @@ "Goodbye" :> <<"G", "o", "o", "d", "b", "y", "e">>

WordText == KeywordText @@ ExtraKeywordText

\* Word::decode(Some(raw)); Word::decode(None) is "EOL".
Word_decode(raw) ==
    IF \E k \in DOMAIN WordText : WordText[k] = raw
    THEN CHOOSE k \in DOMAIN WordText : WordText[k] = raw
    ELSE "None"

\* Word::decode_words
decode_words(raw) ==
    [i \in 1..(Len(raw) + 1) |->
        IF i <= Len(raw) THEN Word_decode(raw[i]) ELSE "EOL"]

\* Word::encode: "None" for Arg and EOL.
Word_encode(w) == IF w \in {"Arg", "EOL"} THEN "None" ELSE WordText[w]

\* words.get(idx), idx counted from 0.
WordsGet(words, idx) == IF idx < Len(words) THEN words[idx + 1] ELSE "Absent"

MatchesStrictArg(self, other) ==
    IF other # "Absent"
    THEN IF self = "Arg" THEN other = "None"
         ELSE IF other # "None" THEN self = other
         ELSE self = "EOL"
    ELSE FALSE

\* Word::matches
Word_matches(self, other) ==
    IF other # "Absent"
    THEN IF self = "Arg" THEN TRUE
         ELSE IF other # "None" THEN self = other
         ELSE self = "EOL"
    ELSE FALSE

\* The matcher of a variadic tail (Arg-until-end): every slot from idx
\* onward holds a present word.
matches_until_end(idx, words) ==
    \A i \in idx..(Len(words) - 1) : Word_matches("Arg", WordsGet(words, i))

\* The binding of a variadic tail: raw[idx..], which aborts past the end.
VarargSlice(raw, idx) == SubSeq(raw, idx + 1, Len(raw))

FieldNames(v) ==
    {v.args[i][2] : i \in 1..Len(v.args)}
        \cup (IF v.vararg = <<>> THEN {} ELSE {v.vararg[2]})

ArgIndex(v, f) ==
    (CHOOSE i \in 1..Len(v.args) : v.args[i][2] = f)

PatternMatches(v, words) ==
    /\ \A i \in 1..Len(v.words) : Word_matches(v.words[i], WordsGet(words, i - 1))
    /\ v.vararg # <<>> => matches_until_end(v.vararg[1], words)

\* A decoded sentence: the variant and its fields.
BuildSentence(v, raw) ==
    [name |-> v.name,
     fields |-> [f \in FieldNames(v) |->
                    IF v.vararg # <<>> /\ f = v.vararg[2]
                    THEN VarargSlice(raw, v.vararg[1])
                    ELSE raw[v.args[ArgIndex(v, f)][1] + 1]]]

\* raw[$argidx] and raw[$varargidx..] index out of bounds.
BindAborts(v, raw) ==
    \/ \E i \in 1..Len(v.args) : v.args[i][1] >= Len(raw)
    \/ v.vararg # <<>> /\ v.vararg[1] > Len(raw)

DecodeNone == [kind |-> "None"]

\* Sentences::decode: the first variant, in declaration order, whose
\* pattern matches; kind is "Some", "None" or "Panic".
Sentences_decode(catalog, raw) ==
    LET words == decode_words(raw)
        hits  == {k \in 1..Len(catalog) : PatternMatches(catalog[k], words)}
    IN  IF hits = {} THEN DecodeNone
        ELSE LET k == CHOOSE h \in hits : \A g \in hits : h <= g
                 v == catalog[k]
             IN  IF BindAborts(v, raw) THEN [kind |-> "Panic"]
                 ELSE [kind |-> "Some", sentence |-> BuildSentence(v, raw)]

Variant(catalog, name) ==
    catalog[CHOOSE k \in 1..Len(catalog) : catalog[k].name = name]

\* Sentences::encode: the pattern's words, the argument slots replaced by
\* the fields, the None slots dropped, the variadic tail appended.
Sentences_encode(catalog, s) ==
    LET v == Variant(catalog, s.name)
        slot(i) ==
            IF \E a \in 1..Len(v.args) : v.args[a][1] = i - 1
            THEN <<s.fields[v.args[CHOOSE a \in 1..Len(v.args) :
                                        v.args[a][1] = i - 1][2]]>>
            ELSE IF Word_encode(v.words[i]) = "None" THEN <<>>
            ELSE <<Word_encode(v.words[i])>>
    IN  Flatten([i \in 1..Len(v.words) |-> slot(i)])
            \o (IF v.vararg = <<>> THEN <<>> ELSE s.fields[v.vararg[2]])

(***************************************************************************)
(* The tokenizer round trip: a token list is drawn, joined, and the line   *)
(* is split again.                                                         *)
(***************************************************************************)
Tokens == StrsUpTo(TokAlphabet, MaxTokLen)
ShortTokens == StrsUpTo(TokAlphabet, MaxTokLen - 1)

TokenLists ==
    {<<>>} \cup {<<t>> : t \in Tokens}
           \cup {<<t, u>> : t \in ShortTokens, u \in ShortTokens}
           \cup {<<t, u, t>> : t \in ShortTokens, u \in ShortTokens}

TokIdle ==
    /\ tk_pc = "idle"
    /\ tk_in = <<>>
    /\ tk_line = <<>>
    /\ tk_out = SplitFail

TokInit ==
    /\ tk_pc = "start"
    /\ tk_in \in TokenLists
    /\ tk_line = <<>>
    /\ tk_out = SplitFail

TokJoin ==
    /\ tk_pc = "start"
    /\ tk_line' = join_sentence(tk_in)
    /\ tk_pc' = "joined"
    /\ UNCHANGED <<tk_in, tk_out>>
    /\ UNCHANGED notTok

TokSplit ==
    /\ tk_pc = "joined"
    /\ tk_out' = split_sentence(tk_line)
    /\ tk_pc' = "done"
    /\ UNCHANGED <<tk_in, tk_line>>
    /\ UNCHANGED notTok

TokNext == TokJoin \/ TokSplit


\* What the claim calls a token "without whitespace or quotes".
NoBlankNoQuote(t) == \A i \in 1..Len(t) : t[i] \notin {SP, TAB, NL, SQ, DQ}

HasBlank(t) == \E i \in 1..Len(t) : t[i] \in {SP, TAB}

AllSafe(t) == t # <<>> /\ \A i \in 1..Len(t) : t[i] \in SafeChars

NewlineCount(s) == Cardinality({i \in 1..Len(s) : s[i] = NL})

TokRoundTrip == tk_out.ok /\ tk_out.words = tk_in

TokOneNewline ==
    /\ tk_line # <<>>
    /\ tk_line[Len(tk_line)] = NL
    /\ NewlineCount(tk_line) = 1

TokBlankWrapped ==
    \A t \in Tokens :
        (tk_in = <<t>> /\ HasBlank(t)) =>
            /\ tk_line[1] = SQ
            /\ tk_line[Len(tk_line) - 1] = SQ
            /\ Len(tk_line) >= Len(t) + 3

TokOneSpace ==
    \A t \in ShortTokens, u \in ShortTokens :
        (tk_in = <<t, u>> /\ AllSafe(t) /\ AllSafe(u)) =>
            tk_line = t \o <<SP>> \o u \o <<NL>>

MaxTail == 3

\* Field values: a plain word, the empty string, a string with a blank,
\* and a reserved word of the protocol.
CodecValues == {<<"a">>, <<>>, <<"b", " ", "c">>, <<"V", "A", "R">>}

TailValues == {<<"x">>, <<"R", "W">>}

Tails == StrsUpTo(TailValues, MaxTail)

Catalog(c) == IF c = "client" THEN ClientCatalog ELSE ServerCatalog

ArgNames(v) == {v.args[i][2] : i \in 1..Len(v.args)}

SentencesOf(v) ==
    IF v.vararg = <<>>
    THEN {[name |-> v.name, fields |-> f] : f \in [ArgNames(v) -> CodecValues]}
    ELSE {[name |-> v.name, fields |-> f @@ (v.vararg[2] :> t)] :
              f \in [ArgNames(v) -> CodecValues], t \in Tails}

AllSentences(c) ==
    UNION {SentencesOf(Catalog(c)[k]) : k \in 1..Len(Catalog(c))}

CodecIdle ==
    /\ cd_pc = "idle"
    /\ cd_cat = "client"
    /\ cd_s = [name |-> "GenericOk", fields |-> [f \in {} |-> <<>>]]
    /\ cd_words = <<>>
    /\ cd_dec = DecodeNone
    /\ cd_back = <<>>

CodecInit ==
    /\ cd_pc = "start"
    /\ cd_cat \in {"client", "server"}
    /\ cd_s \in AllSentences(cd_cat)
    /\ cd_words = <<>>
    /\ cd_dec = DecodeNone
    /\ cd_back = <<>>

CodecEncode ==
    /\ cd_pc = "start"
    /\ cd_words' = Sentences_encode(Catalog(cd_cat), cd_s)
    /\ cd_pc' = "encoded"
    /\ UNCHANGED <<cd_cat, cd_s, cd_dec, cd_back>>
    /\ UNCHANGED notCodec

CodecDecode ==
    /\ cd_pc = "encoded"
    /\ cd_dec' = Sentences_decode(Catalog(cd_cat), cd_words)
    /\ cd_pc' = "decoded"
    /\ UNCHANGED <<cd_cat, cd_s, cd_words, cd_back>>
    /\ UNCHANGED notCodec

CodecEncodeBack ==
    /\ cd_pc = "decoded"
    /\ cd_dec.kind = "Some"
    /\ cd_back' = Sentences_encode(Catalog(cd_cat), cd_dec.sentence)
    /\ cd_pc' = "done"
    /\ UNCHANGED <<cd_cat, cd_s, cd_words, cd_dec>>
    /\ UNCHANGED notCodec

CodecNext == CodecEncode \/ CodecDecode \/ CodecEncodeBack

\* C1: for every variant of both catalogs and every binding of its fields
\* (variadic tails of length 0 to MaxTail), decoding the encoded sentence
\* gives exactly the sentence, and encoding the decoded sentence gives the
\* original word list.
C1_CodecRoundTrip ==
    /\ cd_pc \in {"decoded", "done"} =>
          (cd_dec.kind = "Some" /\ cd_dec.sentence = cd_s)
    /\ cd_pc = "done" => cd_back = cd_words

\* C1 witness: an ERR sentence with a tail of three extras, one field a
\* reserved word, has made the whole round trip.
C1_Witness ==
    /\ cd_pc = "done"
    /\ cd_s.name = "RespondErr"
    /\ Len(cd_s.fields["extras"]) = 3
    /\ cd_s.fields["message"] = <<"V", "A", "R">>
    /\ cd_dec.sentence = cd_s

(***************************************************************************)
(* Error classification: an ERR sentence to a NutError                     *)
(***************************************************************************)
ErrCodeTable ==
    <<
      [code |-> <<"A", "C", "C", "E", "S", "S", "-", "D", "E", "N", "I", "E", "D">>,
       kind |-> "AccessDenied"],
      [code |-> <<"U", "N", "K", "N", "O", "W", "N", "-", "U", "P", "S">>,
       kind |-> "UnknownUps"],
      [code |-> <<"V", "A", "R", "-", "N", "O", "T", "-", "S", "U", "P", "P", "O", "R", "T", "E", "D">>,
       kind |-> "VarNotSupported"],
      [code |-> <<"C", "M", "D", "-", "N", "O", "T", "-", "S", "U", "P", "P", "O", "R", "T", "E", "D">>,
       kind |-> "CmdNotSupported"],
      [code |-> <<"I", "N", "V", "A", "L", "I", "D", "-", "A", "R", "G", "U", "M", "E", "N", "T">>,
       kind |-> "InvalidArgument"],
      [code |-> <<"I", "N", "S", "T", "C", "M", "D", "-", "F", "A", "I", "L", "E", "D">>,
       kind |-> "InstCmdFailed"],
      [code |-> <<"S", "E", "T", "-", "F", "A", "I", "L", "E", "D">>,
       kind |-> "SetFailed"],
      [code |-> <<"R", "E", "A", "D", "O", "N", "L", "Y">>,
       kind |-> "ReadOnly"],
      [code |-> <<"T", "O", "O", "-", "L", "O", "N", "G">>,
       kind |-> "TooLong"],
      [code |-> <<"F", "E", "A", "T", "U", "R", "E", "-", "N", "O", "T", "-", "S", "U", "P", "P", "O", "R", "T", "E", "D">>,
       kind |-> "FeatureNotSupported"],
      [code |-> <<"F", "E", "A", "T", "U", "R", "E", "-", "N", "O", "T", "-", "C", "O", "N", "F", "I", "G", "U", "R", "E", "D">>,
       kind |-> "FeatureNotConfigured"],
      [code |-> <<"A", "L", "R", "E", "A", "D", "Y", "-", "S", "S", "L", "-", "M", "O", "D", "E">>,
       kind |-> "AlreadySslMode"],
      [code |-> <<"D", "R", "I", "V", "E", "R", "-", "N", "O", "T", "-", "C", "O", "N", "N", "E", "C", "T", "E", "D">>,
       kind |-> "DriverNotConnected"],
      [code |-> <<"D", "A", "T", "A", "-", "S", "T", "A", "L", "E">>,
       kind |-> "DataStale"],
      [code |-> <<"A", "L", "R", "E", "A", "D", "Y", "-", "L", "O", "G", "G", "E", "D", "-", "I", "N">>,
       kind |-> "AlreadyLoggedIn"],
      [code |-> <<"I", "N", "V", "A", "L", "I", "D", "-", "P", "A", "S", "S", "W", "O", "R", "D">>,
       kind |-> "InvalidPassword"],
      [code |-> <<"A", "L", "R", "E", "A", "D", "Y", "-", "S", "E", "T", "-", "P", "A", "S", "S", "W", "O", "R", "D">>,
       kind |-> "AlreadySetPassword"],
      [code |-> <<"I", "N", "V", "A", "L", "I", "D", "-", "U", "S", "E", "R", "N", "A", "M", "E">>,
       kind |-> "InvalidUsername"],
      [code |-> <<"A", "L", "R", "E", "A", "D", "Y", "-", "S", "E", "T", "-", "U", "S", "E", "R", "N", "A", "M", "E">>,
       kind |-> "AlreadySetUsername"],
      [code |-> <<"U", "S", "E", "R", "N", "A", "M", "E", "-", "R", "E", "Q", "U", "I", "R", "E", "D">>,
       kind |-> "UsernameRequired"],
      [code |-> <<"P", "A", "S", "S", "W", "O", "R", "D", "-", "R", "E", "Q", "U", "I", "R", "E", "D">>,
       kind |-> "PasswordRequired"],
      [code |-> <<"U", "N", "K", "N", "O", "W", "N", "-", "C", "O", "M", "M", "A", "N", "D">>,
       kind |-> "UnknownCommand"],
      [code |-> <<"I", "N", "V", "A", "L", "I", "D", "-", "V", "A", "L", "U", "E">>,
       kind |-> "InvalidValue"]
    >>

ErrCodes == {ErrCodeTable[i].code : i \in 1..Len(ErrCodeTable)}

TypedKinds == {ErrCodeTable[i].kind : i \in 1..Len(ErrCodeTable)}

\* A NutError: its kind and, for Generic, the message it carries.
Typed(k) == [kind |-> k, msg |-> <<>>]

Generic(m) == [kind |-> "Generic", msg |-> m]

\* Two codes merged into one kind.
NutErrorMerged(sentence) ==
    IF sentence.name # "RespondErr" THEN [kind |-> "Panic", msg |-> <<>>]
    ELSE LET message == sentence.fields["message"]
             hits == {i \in 1..Len(ErrCodeTable) : ErrCodeTable[i].code = message}
         IN  IF hits = {} THEN Generic(message)
             ELSE LET k == ErrCodeTable[CHOOSE i \in hits : TRUE].kind
                  IN  Typed(IF k = "ReadOnly" THEN "SetFailed" ELSE k)

\* impl From<ClientSentences> for NutError: the message of an ERR sentence
\* is looked up, the extras are ignored; any other sentence panics.
NutError_from(sentence) ==
    IF sentence.name # "RespondErr" THEN [kind |-> "Panic", msg |-> <<>>]
    ELSE LET message == sentence.fields["message"]
             hits == {i \in 1..Len(ErrCodeTable) : ErrCodeTable[i].code = message}
         IN  IF hits = {} THEN Generic(message)
             ELSE Typed(ErrCodeTable[CHOOSE i \in hits : \A j \in hits : i <= j].kind)

\* Codes outside the list: unknown, empty, lower case, a code with a blank,
\* a code that is a reserved word, a listed code with a trailing character.
OtherCodes ==
    {<<"F", "O", "O">>,
     <<>>,
     <<"r", "e", "a", "d", "o", "n", "l", "y">>,
     <<"T", "O", "O", " ", "L", "O", "N", "G">>,
     <<"E", "R", "R">>,
     <<"R", "E", "A", "D", "O", "N", "L", "Y", "-">>}

RespondErr(message, extras) ==
    [name |-> "RespondErr",
     fields |-> ("message" :> message) @@ ("extras" :> extras)]

ErrSentences(tails) ==
    {RespondErr(c, t) : c \in ErrCodes \cup OtherCodes, t \in tails}

NoNutError == [kind |-> "None", msg |-> <<>>]

ErrIdle ==
    /\ er_pc = "idle"
    /\ er_a = RespondErr(<<>>, <<>>)
    /\ er_b = RespondErr(<<>>, <<>>)
    /\ er_ka = NoNutError
    /\ er_kb = NoNutError

\* Two ERR sentences, so that their kinds can be compared.
ErrInit ==
    /\ er_pc = "start"
    /\ er_a \in ErrSentences(Tails)
    /\ er_b \in ErrSentences({<<>>, <<<<"x">>>>})
    /\ er_ka = NoNutError
    /\ er_kb = NoNutError

ErrConvertFirst ==
    /\ er_pc = "start"
    /\ er_ka' = NutError_from(er_a)
    /\ er_pc' = "first"
    /\ UNCHANGED <<er_a, er_b, er_kb>>
    /\ UNCHANGED notErr

ErrConvertSecond ==
    /\ er_pc = "first"
    /\ er_kb' = NutError_from(er_b)
    /\ er_pc' = "done"
    /\ UNCHANGED <<er_a, er_b, er_ka>>
    /\ UNCHANGED notErr

ErrNext == ErrConvertFirst \/ ErrConvertSecond

\* C4: a listed code maps to a typed kind, never Generic, whatever the
\* extras; two different listed codes map to two different kinds, so the 23
\* codes take 23 kinds; any other code c maps to Generic carrying c.
C4_ErrMapping ==
    er_pc = "done" =>
        LET ca == er_a.fields["message"]
            cb == er_b.fields["message"]
        IN  /\ ca \in ErrCodes =>
                /\ er_ka.kind \in TypedKinds
                /\ er_ka.kind # "Generic"
                /\ er_ka.msg = <<>>
            /\ (ca \in ErrCodes /\ cb \in ErrCodes /\ ca # cb) =>
                er_ka.kind # er_kb.kind
            /\ (ca \in ErrCodes /\ ca = cb) => er_ka = er_kb
            /\ ca \notin ErrCodes => er_ka = Generic(ca)
            /\ Cardinality(ErrCodes) = 23
            /\ Cardinality(TypedKinds) = 23

\* C4 witness: READONLY with three extras and SET-FAILED with one have been
\* converted to two different typed kinds.
C4_Witness ==
    /\ er_pc = "done"
    /\ er_a.fields["message"] = <<"R", "E", "A", "D", "O", "N", "L", "Y">>
    /\ Len(er_a.fields["extras"]) = 3
    /\ er_b.fields["message"] = <<"S", "E", "T", "-", "F", "A", "I", "L", "E", "D">>
    /\ er_ka.kind = "ReadOnly"
    /\ er_kb.kind = "SetFailed"

\* C4 witness, second case: an unlisted code came out as Generic.
C4_WitnessGeneric ==
    /\ er_pc = "done"
    /\ er_a.fields["message"] = <<"F", "O", "O">>
    /\ er_ka = Generic(<<"F", "O", "O">>)

(***************************************************************************)
(* The sentence stream: read_literal, read_sentence, read_sentences_until  *)
(***************************************************************************)
\* A crate::Error, a crate::Result and a panic.  The value of an Ok is
\* always a sequence: empty for (), of one element for a single value.
NoError == [type |-> "None", nut |-> NoNutError, io |-> "none"]

ErrNut(e) == [type |-> "Nut", nut |-> e, io |-> "none"]

ErrIo(k) == [type |-> "Io", nut |-> NoNutError, io |-> k]

Ok(v) == [kind |-> "Ok", val |-> v, err |-> NoError]

Err(e) == [kind |-> "Err", val |-> <<>>, err |-> e]

Panicked == [kind |-> "Panic", val |-> <<>>, err |-> NoError]

\* Error::eof()
Error_eof == ErrIo("UnexpectedEof")

\* The index of the first newline of s, 0 when it has none.
FirstNewline(s) ==
    IF \E i \in 1..Len(s) : s[i] = NL
    THEN CHOOSE i \in 1..Len(s) : s[i] = NL /\ \A j \in 1..(i - 1) : s[j] # NL
    ELSE 0

\* read_literal: BufRead::read_line takes the bytes up to and including the
\* first newline, or all that is left at the end of the stream.
read_literal(stream) ==
    LET n == FirstNewline(stream)
    IN  IF n = 0 THEN [raw |-> stream, rest |-> <<>>]
        ELSE [raw |-> SubSeq(stream, 1, n),
              rest |-> SubSeq(stream, n + 1, Len(stream))]

\* The conversion of a decoded client-bound sentence to a Result: ERR
\* becomes the error, any other sentence is the value.
ClientSentences_into(s) ==
    IF s.name = "RespondErr" THEN Err(ErrNut(NutError_from(s))) ELSE Ok(<<s>>)

\* impl Into<crate::Result<Self>> for (server-bound) Sentences
ServerSentences_into(s) == Ok(<<s>>)

Sentence_into(cat, s) ==
    IF cat = "client" THEN ClientSentences_into(s) ELSE ServerSentences_into(s)

\* read_sentence without the final conversion.
ReadSentenceNoInto(cat, stream) ==
    LET l == read_literal(stream)
        split == split_sentence(l.raw)
        d == Sentences_decode(Catalog(cat), split.words)
    IN  [rest |-> l.rest,
         res |-> IF l.raw = <<>> THEN Err(Error_eof)
                 ELSE IF ~split.ok THEN Err(ErrNut(Typed("NotProcessable")))
                 ELSE IF d.kind = "None" THEN Err(ErrNut(Typed("InvalidArgument")))
                 ELSE IF d.kind = "Panic" THEN Panicked
                 ELSE Ok(<<d.sentence>>)]

\* read_sentence without the test for an empty line.
ReadSentenceNoEof(cat, stream) ==
    LET l == read_literal(stream)
        split == split_sentence(l.raw)
        d == Sentences_decode(Catalog(cat), split.words)
    IN  [rest |-> l.rest,
         res |-> IF ~split.ok THEN Err(ErrNut(Typed("NotProcessable")))
                 ELSE IF d.kind = "None" THEN Err(ErrNut(Typed("InvalidArgument")))
                 ELSE IF d.kind = "Panic" THEN Panicked
                 ELSE Sentence_into(cat, d.sentence)]

\* read_sentence with the line of a failed split left in the stream.
ReadSentenceKeepsLine(cat, stream) ==
    LET l == read_literal(stream)
        split == split_sentence(l.raw)
        d == Sentences_decode(Catalog(cat), split.words)
    IN  [rest |-> IF l.raw # <<>> /\ ~split.ok THEN stream ELSE l.rest,
         res |-> IF l.raw = <<>> THEN Err(Error_eof)
                 ELSE IF ~split.ok THEN Err(ErrNut(Typed("NotProcessable")))
                 ELSE IF d.kind = "None" THEN Err(ErrNut(Typed("InvalidArgument")))
                 ELSE IF d.kind = "Panic" THEN Panicked
                 ELSE Sentence_into(cat, d.sentence)]

\* ConnectionStream::read_sentence: the result and what is left to read.
read_sentence(cat, stream) ==
    LET l == read_literal(stream)
        split == split_sentence(l.raw)
        d == Sentences_decode(Catalog(cat), split.words)
    IN  [rest |-> l.rest,
         res |-> IF l.raw = <<>> THEN Err(Error_eof)
                 ELSE IF ~split.ok THEN Err(ErrNut(Typed("NotProcessable")))
                 ELSE IF d.kind = "None" THEN Err(ErrNut(Typed("InvalidArgument")))
                 ELSE IF d.kind = "Panic" THEN Panicked
                 ELSE Sentence_into(cat, d.sentence)]

\* The lines read_sentences_until reads at most.
max_iter == 1000

\* The loop of read_sentences_until; a matcher is the set of variants it
\* holds for.
RECURSIVE UntilLoop(_, _, _, _, _)
UntilLoop(cat, stream, matcher, result, iter) ==
    IF iter = max_iter
    THEN [rest |-> stream, res |-> Err(ErrIo("Interrupted"))]
    ELSE LET r == read_sentence(cat, stream)
         IN  IF r.res.kind # "Ok" THEN r
             ELSE IF r.res.val[1].name \in matcher
             THEN [rest |-> r.rest, res |-> Ok(result)]
             ELSE UntilLoop(cat, r.rest, matcher,
                            Append(result, r.res.val[1]), iter + 1)

\* The loop with the terminator kept in the result.
UntilKeepsTerminator(cat, stream, matcher) ==
    LET r == UntilLoop(cat, stream, matcher, <<>>, 0)
        t == read_sentence(cat, stream)
    IN  IF r.res.kind = "Ok" /\ r.res.val = <<>>
        THEN [rest |-> r.rest, res |-> Ok(t.res.val)]
        ELSE r

\* ConnectionStream::read_sentences_until
read_sentences_until(cat, stream, matcher) ==
    UntilLoop(cat, stream, matcher, <<>>, 0)

LineBeginListUps ==
    <<"B", "E", "G", "I", "N", SP, "L", "I", "S", "T", SP, "U", "P",
      "S", NL>>

LineUps0 ==
    <<"U", "P", "S", SP, "n", "u", "t", "d", "e", "v", "0", SP, DQ,
      "A", SP, "N", "U", "T", SP, "d", "e", "v", "i", "c", "e", ".",
      DQ, NL>>

LineUps1 ==
    <<"U", "P", "S", SP, "n", "u", "t", "d", "e", "v", "1", SP, DQ,
      "A", "n", "o", "t", "h", "e", "r", SP, "N", "U", "T", SP, "d",
      "e", "v", "i", "c", "e", ".", DQ, NL>>

LineEndListUps ==
    <<"E", "N", "D", SP, "L", "I", "S", "T", SP, "U", "P", "S", NL>>

LineErrUsername ==
    <<"E", "R", "R", SP, "U", "S", "E", "R", "N", "A", "M", "E", "-",
      "R", "E", "Q", "U", "I", "R", "E", "D", NL>>

LineUnbalanced ==
    <<"U", "P", "S", SP, DQ, "x", NL>>

LineEmpty ==
    <<NL>>

TailOk ==
    <<"O", "K">>

StrNutdev0 ==
    <<"n", "u", "t", "d", "e", "v", "0">>

StrNutdev1 ==
    <<"n", "u", "t", "d", "e", "v", "1">>

StrDesc0 ==
    <<"A", SP, "N", "U", "T", SP, "d", "e", "v", "i", "c", "e", ".">>

StrDesc1 ==
    <<"A", "n", "o", "t", "h", "e", "r", SP, "N", "U", "T", SP, "d",
      "e", "v", "i", "c", "e", ".">>

StrUsernameRequired ==
    <<"U", "S", "E", "R", "N", "A", "M", "E", "-", "R", "E", "Q", "U",
      "I", "R", "E", "D">>

\* Longest stream, in lines, drawn for the sentence stream.
MaxLines == 3

StreamLines ==
    {LineBeginListUps, LineUps0, LineUps1, LineEndListUps, LineErrUsername,
     LineUnbalanced, LineEmpty}

\* The list of UPS devices as the server sends it, followed by a refusal.
UpsListStream ==
    <<LineBeginListUps, LineUps0, LineUps1, LineEndListUps, LineErrUsername>>

\* What may follow the last newline: nothing, or a line cut short.
StreamTails == {<<>>, TailOk}

Streams ==
    {Flatten(ls) \o t :
        ls \in StrsUpTo(StreamLines, MaxLines) \cup {UpsListStream},
        t \in StreamTails}

Matchers == {{"EndListUps"}, {"RespondUps", "RespondErr"}}

\* The call made before the last one.
NoPrev == [op |-> "none", before |-> <<>>, res |-> Ok(<<>>)]

PrevOf(call) == [op |-> call.op, before |-> call.before, res |-> call.res]

NoCall ==
    [op |-> "none", matcher |-> {}, before |-> <<>>, res |-> Ok(<<>>),
     prev |-> NoPrev]

StreamIdle ==
    /\ ss_pc = "idle"
    /\ ss_stream = <<>>
    /\ ss_call = NoCall

StreamInit ==
    /\ ss_pc = "open"
    /\ ss_stream \in Streams
    /\ ss_call = NoCall

\* After a call the stream stays open unless the call panicked or met the
\* end of the stream.
StreamAfter(r) ==
    IF r.res.kind = "Panic" THEN "aborted"
    ELSE IF r.res.kind = "Err" /\ r.res.err = Error_eof THEN "eof"
    ELSE "open"

StreamReadSentence ==
    /\ ss_pc = "open"
    /\ \E r \in {read_sentence("client", ss_stream)} :
           /\ ss_stream' = r.rest
           /\ ss_call' = [op |-> "read_sentence", matcher |-> {},
                          before |-> ss_stream, res |-> r.res,
                          prev |-> PrevOf(ss_call)]
           /\ ss_pc' = StreamAfter(r)
    /\ UNCHANGED notStream

StreamReadUntil ==
    /\ ss_pc = "open"
    /\ \E m \in Matchers :
          \E r \in {read_sentences_until("client", ss_stream, m)} :
              /\ ss_stream' = r.rest
              /\ ss_call' = [op |-> "read_sentences_until", matcher |-> m,
                             before |-> ss_stream, res |-> r.res,
                             prev |-> PrevOf(ss_call)]
              /\ ss_pc' = StreamAfter(r)
    /\ UNCHANGED notStream

StreamNext == StreamReadSentence \/ StreamReadUntil

\* The lines of a stream, each as read_literal hands it out.
RECURSIVE LinesOf(_)
LinesOf(stream) ==
    IF stream = <<>> THEN <<>>
    ELSE LET l == read_literal(stream)
         IN  <<l.raw>> \o LinesOf(l.rest)

\* The sentence the first line of a stream decodes as.
FirstDecoded(stream) ==
    Sentences_decode(ClientCatalog, split_sentence(read_literal(stream).raw).words)

\* C3: read_sentence for client-bound sentences never returns Ok with an ERR
\* sentence; when the line read decodes as ERR <code> [extras] the result is
\* Err(Nut(kind)), kind the typed error of <code>; ERR USERNAME-REQUIRED
\* gives UsernameRequired.
C3_ErrNeverOk ==
    ss_call.op = "read_sentence" =>
        \A d \in {FirstDecoded(ss_call.before)} :
            /\ ss_call.res.kind = "Ok" => ss_call.res.val[1].name # "RespondErr"
            /\ (d.kind = "Some" /\ d.sentence.name = "RespondErr") =>
                  /\ ss_call.res.kind = "Err"
                  /\ ss_call.res.err.type = "Nut"
                  /\ ss_call.res.err.nut = NutError_from(d.sentence)
            /\ read_literal(ss_call.before).raw = LineErrUsername =>
                  ss_call.res = Err(ErrNut(Typed("UsernameRequired")))

\* C3 witness: the line ERR USERNAME-REQUIRED has been read and the read
\* failed with UsernameRequired.
C3_Witness ==
    /\ ss_call.op = "read_sentence"
    /\ read_literal(ss_call.before).raw = LineErrUsername
    /\ ss_call.res.kind = "Err"
    /\ ss_call.res.err.nut.kind = "UsernameRequired"

\* A line neither ends nor breaks the loop: it decodes to a sentence the
\* matcher does not hold for.
Carries(r, matcher) == r.kind = "Ok" /\ r.val[1].name \notin matcher

\* The (name, description) pairs of a list of UPS sentences.
UpsPairs(sentences) ==
    [i \in 1..Len(sentences) |->
        <<sentences[i].fields["ups_name"], sentences[i].fields["description"]>>]

\* C5: read_sentences_until returns exactly the sentences before the first
\* one the matcher holds for, in order, without it, and leaves every line
\* after it in the stream; a line that fails before any terminator is the
\* result instead; the UPS list of the server gives (nutdev0, A NUT device.),
\* (nutdev1, Another NUT device.).
C5_ListFraming ==
    ss_call.op = "read_sentences_until" =>
        \A lines \in {LinesOf(ss_call.before)} :
        \A sents \in {[i \in 1..Len(lines) |-> read_sentence("client", lines[i]).res]} :
        \A stops \in {{i \in 1..Len(lines) : ~Carries(sents[i], ss_call.matcher)}} :
            /\ stops = {} => ss_call.res = Err(Error_eof) /\ ss_stream = <<>>
            /\ stops # {} =>
                 \A k \in {CHOOSE i \in stops : \A j \in stops : i <= j} :
                    /\ ss_stream = Flatten(SubSeq(lines, k + 1, Len(lines)))
                    /\ sents[k].kind = "Ok" =>
                          /\ ss_call.res.kind = "Ok"
                          /\ ss_call.res.val = [j \in 1..(k - 1) |-> sents[j].val[1]]
                    /\ sents[k].kind # "Ok" => ss_call.res = sents[k]
            /\ (/\ ss_call.matcher = {"EndListUps"}
                /\ Len(lines) >= 3
                /\ SubSeq(lines, 1, 3) = <<LineUps0, LineUps1, LineEndListUps>>) =>
                  /\ ss_call.res.kind = "Ok"
                  /\ UpsPairs(ss_call.res.val) =
                        <<<<StrNutdev0, StrDesc0>>, <<StrNutdev1, StrDesc1>>>>

\* C5 witness: BEGIN LIST UPS was read before, the two UPS lines came back
\* as the list, and the line after END LIST UPS is still in the stream.
C5_Witness ==
    /\ ss_call.op = "read_sentences_until"
    /\ ss_call.matcher = {"EndListUps"}
    /\ ss_call.before = Flatten(SubSeq(UpsListStream, 2, 5))
    /\ ss_call.res.kind = "Ok"
    /\ Len(ss_call.res.val) = 2
    /\ ss_stream = LineErrUsername

(***************************************************************************)
(* The connection driver: commands and responses (cmd.rs)                  *)
(***************************************************************************)
\* The texts the driver builds its generic errors from.
Msg ==
    [empty_line |->
        <<"P", "a", "r", "s", "i", "n", "g", SP, "s", "e", "r", "v", "e",
          "r", SP, "r", "e", "s", "p", "o", "n", "s", "e", SP, "f", "a",
          "i", "l", "e", "d", ":", SP, "e", "m", "p", "t", "y", SP, "l",
          "i", "n", "e">>,
     parse_failed |->
        <<"P", "a", "r", "s", "i", "n", "g", SP, "s", "e", "r", "v", "e",
          "r", SP, "r", "e", "s", "p", "o", "n", "s", "e", SP, "f", "a",
          "i", "l", "e", "d", ":", SP, "m", "i", "s", "s", "i", "n", "g",
          SP, "c", "l", "o", "s", "i", "n", "g", SP, "q", "u", "o", "t",
          "e">>,
     unspecified_err |->
        <<"U", "n", "s", "p", "e", "c", "i", "f", "i", "e", "d", SP, "s",
          "e", "r", "v", "e", "r", SP, "e", "r", "r", "o", "r">>,
     server_error |->
        <<"S", "e", "r", "v", "e", "r", SP, "e", "r", "r", "o", "r", ":",
          SP>>,
     unspecified_begin |->
        <<"U", "n", "s", "p", "e", "c", "i", "f", "i", "e", "d", SP, "B",
          "E", "G", "I", "N", SP, "t", "y", "p", "e">>,
     unexpected_begin |->
        <<"U", "n", "e", "x", "p", "e", "c", "t", "e", "d", SP, "B", "E",
          "G", "I", "N", SP, "t", "y", "p", "e", ":", SP>>,
     unspecified_end |->
        <<"U", "n", "s", "p", "e", "c", "i", "f", "i", "e", "d", SP, "E",
          "N", "D", SP, "t", "y", "p", "e">>,
     unexpected_end |->
        <<"U", "n", "e", "x", "p", "e", "c", "t", "e", "d", SP, "E", "N",
          "D", SP, "t", "y", "p", "e", ":", SP>>,
     unspecified |->
        <<"U", "n", "s", "p", "e", "c", "i", "f", "i", "e", "d", SP>>,
     in_response |->
        <<SP, "i", "n", SP, "r", "e", "s", "p", "o", "n", "s", "e">>,
     invalid_numlogins |->
        <<"I", "n", "v", "a", "l", "i", "d", SP, "N", "U", "M", "L", "O",
          "G", "I", "N", "S", SP, "n", "u", "m", "b", "e", "r", SP, "i",
          "n", SP, "r", "e", "s", "p", "o", "n", "s", "e">>]

\* The words of the wire the driver knows by name.
Kw ==
    [OK |-> <<"O", "K">>, ERR |-> <<"E", "R", "R">>, BEGIN |-> <<"B", "E", "G", "I",
                                                   "N">>, END |-> <<
                                                                       "E",
                                                                       "N",
                                                                       "D">>,
     LIST |-> <<"L", "I", "S", "T">>, GET |-> <<"G", "E", "T">>, USERNAME |-> <<"U", "S", "E",
                                                          "R", "N", "A",
                                                          "M", "E">>,
     PASSWORD |-> <<"P", "A", "S", "S", "W", "O", "R", "D">>, STARTTLS |-> <<"S", "T", "A", "R", "T",
                                                "T", "L", "S">>,
     NETVER |-> <<"N", "E", "T", "V", "E", "R">>, VER |-> <<"V", "E", "R">>, INSTCMD |-> <<"I", "N",
                                                             "S", "T",
                                                             "C", "M",
                                                             "D">>,
     LOGOUT |-> <<"L", "O", "G", "O", "U", "T">>, UPS |-> <<"U", "P", "S">>, VAR |-> <<"V", "A", "R">>]

\* Command::name and Command::args: a command is its kind and its
\* arguments.
Command_words(cmd) ==
    LET name == CASE cmd.kind = "Get" -> Kw.GET
                  [] cmd.kind = "SetUsername" -> Kw.USERNAME
                  [] cmd.kind = "SetPassword" -> Kw.PASSWORD
                  [] cmd.kind = "List" -> Kw.LIST
                  [] cmd.kind = "StartTLS" -> Kw.STARTTLS
                  [] cmd.kind = "NetworkVersion" -> Kw.NETVER
                  [] cmd.kind = "Version" -> Kw.VER
                  [] cmd.kind = "Run" -> Kw.INSTCMD
                  [] cmd.kind = "Logout" -> Kw.LOGOUT
        args == IF cmd.kind \in {"Get", "SetUsername", "SetPassword", "List", "Run"}
                THEN cmd.args ELSE <<>>
    IN  <<name>> \o args

\* write_cmd: format!("{}\n", line), Display joining name and arguments.
Command_line(cmd) == ShellJoin(Command_words(cmd)) \o <<NL>>

\* The responses that are a keyword followed by arguments: the arguments
\* that must be there, in order, and the ones the response keeps.
ResponseTable ==
    <<[kw |-> <<"V", "A", "R">>, type |-> "Var", keep |-> <<2, 3>>,
       labels |-> <<<<"V", "A", "R", SP, "d", "e", "v", "i", "c", "e",
                      SP, "n", "a", "m", "e">>, <<"V", "A", "R", SP, "n", "a",
                                            "m", "e">>, <<"V", "A", "R",
                                                           SP, "v", "a",
                                                           "l", "u", "e">>>>],
      [kw |-> <<"R", "W">>, type |-> "Rw", keep |-> <<2, 3>>,
       labels |-> <<<<"R", "W", SP, "d", "e", "v", "i", "c", "e", SP,
                      "n", "a", "m", "e">>, <<"R", "W", SP, "n", "a", "m",
                                           "e">>, <<"R", "W", SP,
                                                         "v", "a", "l",
                                                         "u", "e">>>>],
      [kw |-> <<"U", "P", "S">>, type |-> "Ups", keep |-> <<1, 2>>,
       labels |-> <<<<"U", "P", "S", SP, "n", "a", "m", "e">>, <<"U", "P", "S", SP, "d", "e", "s",
                                     "c", "r", "i", "p", "t", "i", "o",
                                     "n">>>>],
      [kw |-> <<"C", "L", "I", "E", "N", "T">>, type |-> "Client", keep |-> <<2>>,
       labels |-> <<<<"C", "L", "I", "E", "N", "T", SP, "d", "e", "v",
                      "i", "c", "e">>, <<"C", "L", "I", "E", "N", "T",
                                          SP, "I", "P">>>>],
      [kw |-> <<"C", "M", "D">>, type |-> "Cmd", keep |-> <<2>>,
       labels |-> <<<<"C", "M", "D", SP, "d", "e", "v", "i", "c", "e">>, <<"C", "M", "D", SP, "n", "a", "m",
                                       "e">>>>],
      [kw |-> <<"C", "M", "D", "D", "E", "S", "C">>, type |-> "CmdDesc", keep |-> <<3>>,
       labels |-> <<<<"C", "M", "D", "D", "E", "S", "C", SP, "d", "e",
                      "v", "i", "c", "e">>, <<"C", "M", "D", "D", "E", "S",
                                           "C", SP, "n", "a", "m", "e">>,
                    <<"C", "M", "D", "D", "E", "S", "C", SP, "d", "e",
                      "s", "c", "r", "i", "p", "t", "i", "o", "n">>>>],
      [kw |-> <<"U", "P", "S", "D", "E", "S", "C">>, type |-> "UpsDesc", keep |-> <<2>>,
       labels |-> <<<<"U", "P", "S", "D", "E", "S", "C", SP, "d", "e",
                      "v", "i", "c", "e">>, <<"U", "P", "S", "D", "E", "S",
                                           "C", SP, "d", "e", "s", "c",
                                           "r", "i", "p", "t", "i", "o",
                                           "n">>>>],
      [kw |-> <<"D", "E", "S", "C">>, type |-> "Desc", keep |-> <<3>>,
       labels |-> <<<<"D", "E", "S", "C", SP, "d", "e", "v", "i", "c",
                      "e">>, <<"D", "E", "S", "C", SP, "n", "a",
                                        "m", "e">>, <<"D", "E", "S",
                                                        "C", SP, "d",
                                                        "e", "s", "c",
                                                        "r", "i", "p",
                                                        "t", "i", "o",
                                                        "n">>>>],
      [kw |-> <<"N", "U", "M", "L", "O", "G", "I", "N", "S">>, type |-> "NumLogins", keep |-> <<2>>,
       labels |-> <<<<"N", "U", "M", "L", "O", "G", "I", "N", "S", SP,
                      "d", "e", "v", "i", "c", "e">>, <<"N", "U", "M", "L", "O",
                                             "G", "I", "N", "S", SP, "n",
                                             "u", "m", "b", "e", "r">>>>],
      [kw |-> <<"T", "Y", "P", "E">>, type |-> "Type", keep |-> <<2>>,
       labels |-> <<<<"T", "Y", "P", "E", SP, "d", "e", "v", "i", "c",
                      "e">>, <<"T", "Y", "P", "E", SP, "n", "a",
                                        "m", "e">>>>],
      [kw |-> <<"R", "A", "N", "G", "E">>, type |-> "Range", keep |-> <<3, 4>>,
       labels |-> <<<<"R", "A", "N", "G", "E", SP, "d", "e", "v", "i",
                      "c", "e">>, <<"R", "A", "N", "G", "E", SP,
                                         "n", "a", "m", "e">>, <<"R", "A", "N",
                                                          "G", "E", SP,
                                                          "m", "i", "n">>,
                    <<"R", "A", "N", "G", "E", SP, "m", "a", "x">>>>],
      [kw |-> <<"E", "N", "U", "M">>, type |-> "Enum", keep |-> <<3>>,
       labels |-> <<<<"E", "N", "U", "M", SP, "d", "e", "v", "i", "c",
                      "e">>, <<"E", "N", "U", "M", SP, "n", "a",
                                        "m", "e">>, <<"E", "N", "U",
                                                        "M", SP, "v",
                                                        "a", "l", "u",
                                                        "e">>>>]>>

\* Vec<String>::join(" ")
RECURSIVE JoinBlank(_)
JoinBlank(ws) ==
    IF ws = <<>> THEN <<>>
    ELSE IF Len(ws) = 1 THEN ws[1]
    ELSE ws[1] \o <<SP>> \o JoinBlank(Tail(ws))

DigitValue ==
    ("0" :> 0) @@ ("1" :> 1) @@ ("2" :> 2) @@ ("3" :> 3) @@ ("4" :> 4) @@
    ("5" :> 5) @@ ("6" :> 6) @@ ("7" :> 7) @@ ("8" :> 8) @@ ("9" :> 9)

RECURSIVE DigitsValue(_)
DigitsValue(ds) ==
    IF ds = <<>> THEN 0
    ELSE 10 * DigitsValue(SubSeq(ds, 1, Len(ds) - 1)) + DigitValue[ds[Len(ds)]]

\* A digit string without its leading zeros.
RECURSIVE StripZeros(_)
StripZeros(ds) ==
    IF Len(ds) > 1 /\ ds[1] = "0" THEN StripZeros(Tail(ds)) ELSE ds

\* a <= b for two digit strings of the same length.
RECURSIVE DigitsLeq(_, _)
DigitsLeq(a, b) ==
    IF a = <<>> THEN TRUE
    ELSE IF DigitValue[a[1]] # DigitValue[b[1]] THEN DigitValue[a[1]] < DigitValue[b[1]]
    ELSE DigitsLeq(Tail(a), Tail(b))

\* str::parse::<i32>: an optional sign, at least one digit, nothing else,
\* the value within 32 bits.
ParseI32(s) ==
    LET negative == s # <<>> /\ s[1] = "-"
        ds == IF s # <<>> /\ s[1] \in {"+", "-"} THEN Tail(s) ELSE s
        wellFormed == ds # <<>> /\ \A i \in 1..Len(ds) : ds[i] \in DOMAIN DigitValue
        canon == StripZeros(ds)
        limit == IF negative
                 THEN <<"2", "1", "4", "7", "4", "8", "3", "6", "4", "8">>
                 ELSE <<"2", "1", "4", "7", "4", "8", "3", "6", "4", "7">>
        fits == Len(canon) < 10 \/ (Len(canon) = 10 /\ DigitsLeq(canon, limit))
        head == 10 * DigitsValue(SubSeq(canon, 1, Len(canon) - 1))
        last == DigitValue[canon[Len(canon)]]
    IN  IF wellFormed /\ fits
        THEN [ok |-> TRUE,
              num |-> IF negative THEN (0 - head) - last ELSE head + last]
        ELSE [ok |-> FALSE, num |-> 0]

\* A Response: its variant, its strings and, for NumLogins, its number.
Response(type, args) == [type |-> type, args |-> args, num |-> 0]

ErrGeneric(m) == Err(ErrNut(Generic(m)))

ErrTyped(k) == Err(ErrNut(Typed(k)))

\* The codes Response::from_args gives a typed error.
FromArgsCodes ==
    <<[code |-> <<"A", "C", "C", "E", "S", "S", "-", "D", "E", "N", "I",
                  "E", "D">>, kind |-> "AccessDenied"],
      [code |-> <<"U", "N", "K", "N", "O", "W", "N", "-", "U", "P", "S">>, kind |-> "UnknownUps"],
      [code |-> <<"F", "E", "A", "T", "U", "R", "E", "-", "N", "O", "T",
                  "-", "C", "O", "N", "F", "I", "G", "U", "R", "E", "D">>,
       kind |-> "FeatureNotConfigured"]>>

\* from_args, the arm "ERR": args is what follows the keyword.
FromArgsErr(args) ==
    IF args = <<>> THEN ErrGeneric(Msg.unspecified_err)
    ELSE LET err_type == args[1]
             hits == {i \in 1..Len(FromArgsCodes) : FromArgsCodes[i].code = err_type}
         IN  IF hits # {}
             THEN ErrTyped(FromArgsCodes[CHOOSE i \in hits : TRUE].kind)
             ELSE ErrGeneric(Msg.server_error \o err_type \o <<SP>>
                                \o JoinBlank(Tail(args)))

\* from_args, the arms "BEGIN" and "END".
FromArgsBracket(type, args) ==
    IF args = <<>>
    THEN ErrGeneric(IF type = "BeginList" THEN Msg.unspecified_begin
                    ELSE Msg.unspecified_end)
    ELSE IF args[1] # Kw.LIST
    THEN ErrGeneric((IF type = "BeginList" THEN Msg.unexpected_begin
                     ELSE Msg.unexpected_end) \o args[1])
    ELSE Ok(<<Response(type, <<ShellJoin(Tail(args))>>)>>)

\* from_args, the arms of ResponseTable: row is the arm, args what follows
\* the keyword.
FromArgsRow(row, args) ==
    LET need == Len(row.labels)
        kept == [i \in 1..Len(row.keep) |-> args[row.keep[i]]]
    IN  IF Len(args) < need
        THEN ErrGeneric(Msg.unspecified \o row.labels[Len(args) + 1]
                           \o Msg.in_response)
        ELSE IF row.type = "NumLogins"
        THEN LET n == ParseI32(args[2])
             IN  IF n.ok THEN Ok(<<[type |-> "NumLogins", args |-> <<>>, num |-> n.num]>>)
                 ELSE ErrGeneric(Msg.invalid_numlogins)
        ELSE IF row.type = "Type"
        THEN Ok(<<Response("Type", <<args[2]>> \o SubSeq(args, 3, Len(args)))>>)
        ELSE Ok(<<Response(row.type, kept)>>)

\* Response::from_args
Response_from_args(args) ==
    IF args = <<>> THEN ErrGeneric(Msg.empty_line)
    ELSE LET cmd_name == args[1]
             rest == Tail(args)
             rows == {i \in 1..Len(ResponseTable) : ResponseTable[i].kw = cmd_name}
         IN  IF cmd_name = Kw.OK THEN Ok(<<Response("Ok", <<>>)>>)
             ELSE IF cmd_name = Kw.ERR THEN FromArgsErr(rest)
             ELSE IF cmd_name = Kw.BEGIN THEN FromArgsBracket("BeginList", rest)
             ELSE IF cmd_name = Kw.END THEN FromArgsBracket("EndList", rest)
             ELSE IF rows # {}
             THEN FromArgsRow(ResponseTable[CHOOSE i \in rows : TRUE], rest)
             ELSE Err(ErrNut([kind |-> "UnknownResponseType", msg |-> cmd_name]))

\* expect_ok
expect_ok(resp) ==
    IF resp.type = "Ok" THEN Ok(<<resp>>) ELSE ErrTyped("UnexpectedResponse")

\* expect_begin_list accepting any BEGIN LIST.
ExpectAnyBeginList(resp, expected_args) ==
    IF resp.type = "BeginList" THEN Ok(<<resp>>) ELSE ErrTyped("UnexpectedResponse")

\* expect_begin_list
expect_begin_list(resp, expected_args) ==
    IF resp.type = "BeginList"
    THEN IF ShellJoin(expected_args) = resp.args[1] THEN Ok(<<resp>>)
         ELSE ErrTyped("UnexpectedResponse")
    ELSE ErrTyped("UnexpectedResponse")

(***************************************************************************)
(* The connection driver: variables (var.rs)                               *)
(***************************************************************************)
\* The well-known keys, in the order Variable::parse matches them.
VariableKeys ==
    <<[key |-> <<"d", "e", "v", "i", "c", "e", ".", "m", "o", "d", "e",
                 "l">>, variant |-> "DeviceModel"],
      [key |-> <<"d", "e", "v", "i", "c", "e", ".", "m", "f", "r">>, variant |-> "DeviceManufacturer"],
      [key |-> <<"d", "e", "v", "i", "c", "e", ".", "s", "e", "r", "i",
                 "a", "l">>, variant |-> "DeviceSerial"],
      [key |-> <<"d", "e", "v", "i", "c", "e", ".", "t", "y", "p", "e">>, variant |-> "DeviceType"],
      [key |-> <<"d", "e", "v", "i", "c", "e", ".", "d", "e", "s", "c",
                 "r", "i", "p", "t", "i", "o", "n">>, variant |-> "DeviceDescription"],
      [key |-> <<"d", "e", "v", "i", "c", "e", ".", "c", "o", "n", "t",
                 "a", "c", "t">>, variant |-> "DeviceContact"],
      [key |-> <<"d", "e", "v", "i", "c", "e", ".", "l", "o", "c", "a",
                 "t", "i", "o", "n">>, variant |-> "DeviceLocation"],
      [key |-> <<"d", "e", "v", "i", "c", "e", ".", "p", "a", "r", "t">>, variant |-> "DevicePart"],
      [key |-> <<"d", "e", "v", "i", "c", "e", ".", "m", "a", "c", "a",
                 "d", "d", "r">>, variant |-> "DeviceMacAddress"],
      [key |-> <<"d", "e", "v", "i", "c", "e", ".", "u", "p", "t", "i",
                 "m", "e">>, variant |-> "DeviceUptime"]>>

\* A value an operation returns: a variant or type, a sub-variant, strings
\* and a number.
Item(tag, sub, strs, num) == [tag |-> tag, sub |-> sub, strs |-> strs, num |-> num]

\* DeviceType::from
DeviceType_from(v) ==
    CASE v = <<"u", "p", "s">> -> "Ups"
      [] v = <<"p", "d", "u">> -> "Pdu"
      [] v = <<"s", "c", "d">> -> "Scd"
      [] v = <<"p", "s", "u">> -> "Psu"
      [] v = <<"a", "t", "s">> -> "Ats"
      [] OTHER -> "Other"

\* str::parse::<u64>: an optional +, at least one digit, nothing else, the
\* value within 64 bits; the value is kept as its digits.
ParseU64(s) ==
    LET ds == IF s # <<>> /\ s[1] = "+" THEN Tail(s) ELSE s
        wellFormed == ds # <<>> /\ \A i \in 1..Len(ds) : ds[i] \in DOMAIN DigitValue
        canon == StripZeros(ds)
        fits == \/ Len(canon) < 20
                \/ Len(canon) = 20 /\ DigitsLeq(canon, <<"1", "8", "4",
                                                         "4", "6", "7",
                                                         "4", "4", "0",
                                                         "7", "3", "7",
                                                         "0", "9", "5",
                                                         "5", "1", "6",
                                                         "1", "5">>)
    IN  IF wellFormed /\ fits THEN [ok |-> TRUE, digits |-> canon]
        ELSE [ok |-> FALSE, digits |-> <<>>]

\* Variable::parse: the variant of the key, the value converted; an uptime
\* that is not a number panics.
Variable_parse(name, value) ==
    LET hits == {i \in 1..Len(VariableKeys) : VariableKeys[i].key = name}
        variant == IF hits = {} THEN "Other"
                   ELSE VariableKeys[CHOOSE i \in hits : TRUE].variant
    IN  IF variant = "DeviceUptime"
        THEN IF ParseU64(value).ok
             THEN Ok(<<Item(variant, "secs", <<ParseU64(value).digits>>, 0)>>)
             ELSE Panicked
        ELSE IF variant = "DeviceType"
        THEN Ok(<<Item(variant, DeviceType_from(value),
                       IF DeviceType_from(value) = "Other" THEN <<value>> ELSE <<>>,
                       0)>>)
        ELSE IF variant = "Other"
        THEN Ok(<<Item(variant, "", <<name, value>>, 0)>>)
        ELSE Ok(<<Item(variant, "", <<value>>, 0)>>)

(***************************************************************************)
(* The connection driver: reading responses (blocking/mod.rs)              *)
(***************************************************************************)
\* A call that waits for a line the server never sends.
Blocked == [kind |-> "Blocked", val |-> <<>>, err |-> NoError]

\* parse_line: the next line of the wire, its last character cut off, split
\* into words.  At the end of the stream read_line gives the empty string
\* and the slice raw[..raw.len() - 1] panics.  wire is the lines the server
\* has sent and the client has not read; every line but the last one before
\* the server closes ends with a newline.
parse_line(wire, closed) ==
    IF wire = <<>>
    THEN [res |-> IF closed THEN Panicked ELSE Blocked, rest |-> wire]
    ELSE LET raw == Head(wire)
             args == ShellSplit(SubSeq(raw, 1, Len(raw) - 1))
         IN  [res |-> IF args.ok THEN Ok(args.words)
                      ELSE ErrGeneric(Msg.parse_failed),
              rest |-> Tail(wire)]

\* The ? operator on a read: r unless it is Ok, else what follows.
ResponseOf(line) ==
    [res |-> IF line.res.kind = "Ok" THEN Response_from_args(line.res.val)
             ELSE line.res,
     rest |-> line.rest]

\* read_response
read_response(wire, closed) == ResponseOf(parse_line(wire, closed))

\* read_plain_response
read_plain_response(wire, closed) ==
    LET line == parse_line(wire, closed)
    IN  [res |-> IF line.res.kind = "Ok"
                 THEN Ok(<<Item("String", "", <<JoinBlank(line.res.val)>>, 0)>>)
                 ELSE line.res,
         rest |-> line.rest]

\* The loop of read_list: any END LIST breaks it.
RECURSIVE ReadListLoop(_, _, _)
ReadListStep(r, closed, lines) ==
    IF r.res.kind # "Ok" THEN r
    ELSE IF r.res.val[1].type = "EndList" THEN [res |-> Ok(lines), rest |-> r.rest]
    ELSE ReadListLoop(r.rest, closed, Append(lines, r.res.val[1]))

ReadListLoop(wire, closed, lines) ==
    ReadListStep(read_response(wire, closed), closed, lines)

ReadListBegin(first, closed, query) ==
    IF first.res.kind # "Ok" THEN first
    ELSE IF expect_begin_list(first.res.val[1], query).kind # "Ok"
    THEN [res |-> expect_begin_list(first.res.val[1], query), rest |-> first.rest]
    ELSE ReadListLoop(first.rest, closed, <<>>)

\* read_list
read_list(wire, closed, query) ==
    ReadListBegin(read_response(wire, closed), closed, query)

\* The expect_* mappers: the payload of a response of the expected type.
Expect(type, resp) ==
    IF resp.type # type THEN ErrTyped("UnexpectedResponse")
    ELSE CASE type \in {"Var", "Rw"} -> Variable_parse(resp.args[1], resp.args[2])
           [] type = "Ups" -> Ok(<<Item("Pair", "", resp.args, 0)>>)
           [] type = "Range" -> Ok(<<Item("VariableRange", "", resp.args, 0)>>)
           [] type = "NumLogins" -> Ok(<<Item("i32", "", <<>>, resp.num)>>)
           [] OTHER -> Ok(<<Item("String", "", <<resp.args[1]>>, 0)>>)

\* list.into_iter().map(mapper).collect(): the values, or the first failure.
RECURSIVE MapCollect(_, _, _)
MapCollect(type, list, acc) ==
    IF list = <<>> THEN Ok(acc)
    ELSE LET m == Expect(type, Head(list))
         IN  IF m.kind # "Ok" THEN m
             ELSE MapCollect(type, Tail(list), Append(acc, m.val[1]))

\* What an operation does once its command is written: op.family is the
\* macro that implements it, op.query what it asks for, op.type the
\* response its mapper expects.
Answer(op, wire, closed) ==
    CASE op.family = "list" ->
           LET l == read_list(wire, closed, op.query)
           IN  [res |-> IF l.res.kind = "Ok" THEN MapCollect(op.type, l.res.val, <<>>)
                        ELSE l.res,
                rest |-> l.rest]
      [] op.family = "get" ->
           LET r == read_response(wire, closed)
           IN  [res |-> IF r.res.kind = "Ok" THEN Expect(op.type, r.res.val[1])
                        ELSE r.res,
                rest |-> r.rest]
      [] op.family = "simple" -> read_plain_response(wire, closed)
      [] op.family = "action" ->
           LET r == read_response(wire, closed)
           IN  [res |-> IF r.res.kind # "Ok" THEN r.res
                        ELSE IF expect_ok(r.res.val[1]).kind = "Ok" THEN Ok(<<>>)
                        ELSE expect_ok(r.res.val[1]),
                rest |-> r.rest]

\* The command an operation writes.
CommandOf(op) ==
    CASE op.family = "list" -> [kind |-> "List", args |-> op.query]
      [] op.family = "get" -> [kind |-> "Get", args |-> op.query]
      [] OTHER -> [kind |-> op.cmd, args |-> op.query]

(***************************************************************************)
(* The connection driver: operations against a server                      *)
(***************************************************************************)
\* Most operations made on one connection.
MaxOps == 2

\* The names the operations and the server use.
Names ==
    [nutdev |-> <<"n", "u", "t", "d", "e", "v">>, nope |-> <<"n", "o", "p", "e">>, a |-> <<"a">>, user |-> <<"u">>,
     uptime |-> VariableKeys[10].key]

\* The lines a server sends.
Line ==
    [ok |-> <<"O", "K", NL>>,
     ok_cut |-> <<"O", "K">>,
     netver |-> <<"1", ".", "2", NL>>,
     begin_ups |-> <<"B", "E", "G", "I", "N", SP, "L", "I", "S", "T", SP,
                     "U", "P", "S", NL>>,
     ups |-> <<"U", "P", "S", SP, "n", "u", "t", "d", "e", "v", SP, DQ,
               "A", SP, "b", DQ, NL>>,
     end_ups |-> <<"E", "N", "D", SP, "L", "I", "S", "T", SP, "U", "P",
                   "S", NL>>,
     begin_var |-> <<"B", "E", "G", "I", "N", SP, "L", "I", "S", "T", SP,
                     "V", "A", "R", SP, "n", "u", "t", "d", "e", "v", NL>>,
     var |-> <<"V", "A", "R", SP, "n", "u", "t", "d", "e", "v", SP, "a",
               SP, DQ, "b", SP, "c", DQ, NL>>,
     var_short |-> <<"V", "A", "R", SP, "n", "u", "t", "d", "e", "v", SP,
                     "a", NL>>,
     end_var |-> <<"E", "N", "D", SP, "L", "I", "S", "T", SP, "V", "A",
                   "R", SP, "n", "u", "t", "d", "e", "v", NL>>,
     var_uptime |-> <<"V", "A", "R", SP, "n", "u", "t", "d", "e", "v", SP, "d",
                    "e", "v", "i", "c", "e", ".", "u", "p", "t", "i", "m", "e",
                    SP, "3", "6", "0", "0", NL>>,
     var_uptime_bad |-> <<"V", "A", "R", SP, "n", "u", "t", "d", "e", "v", SP, "d",
                        "e", "v", "i", "c", "e", ".", "u", "p", "t", "i", "m", "e",
                        SP, "s", "o", "o", "n", NL>>]

ErrLine(code) == Kw.ERR \o <<SP>> \o code \o <<NL>>

\* The codes the server refuses with: the three Response::from_args names,
\* two more of the list, one that is not in the list.
RefusalCodes ==
    {FromArgsCodes[i].code : i \in 1..Len(FromArgsCodes)}
        \cup {StrUsernameRequired, <<"R", "E", "A", "D", "O", "N", "L",
                                     "Y">>, <<"F", "O", "O">>}

\* What the server sends in reply to one request, and whether it closes the
\* connection after it: right answers, refusals, lists that do not echo the
\* query, lists with a wrong or a short item, answers cut by the close,
\* no answer at all.
Reply(lines, close) == [lines |-> lines, close |-> close]

Scripts ==
    {Reply(<<ErrLine(c)>>, FALSE) : c \in RefusalCodes}
    \cup
    {Reply(<<Line.ok>>, FALSE),
     Reply(<<Line.netver>>, FALSE),
     Reply(<<Line.var>>, FALSE),
     Reply(<<Line.var_uptime>>, FALSE),
     Reply(<<Line.var_uptime_bad>>, FALSE),
     Reply(<<Line.begin_var, Line.var_uptime_bad, Line.end_var>>, FALSE),
     Reply(<<Line.begin_ups, Line.ups, Line.end_ups>>, FALSE),
     Reply(<<Line.begin_ups, Line.end_ups>>, FALSE),
     Reply(<<Line.begin_var, Line.var, Line.end_var>>, FALSE),
     Reply(<<Line.begin_var, Line.var, Line.end_ups>>, FALSE),
     Reply(<<Line.begin_var, Line.ups, Line.end_var>>, FALSE),
     Reply(<<Line.begin_var, Line.var_short, Line.end_var>>, FALSE),
     Reply(<<Line.begin_ups>>, TRUE),
     Reply(<<Line.ok_cut>>, TRUE),
     Reply(<<>>, TRUE),
     Reply(<<>>, FALSE)}

\* The operations of cmd.rs the model calls.
Op(name, family, cmd, query, type) ==
    [name |-> name, family |-> family, cmd |-> cmd, query |-> query, type |-> type]

OpListUps == Op("list_ups", "list", "List", <<Kw.UPS>>, "Ups")

OpListVars(ups_name) == Op("list_vars", "list", "List", <<Kw.VAR, ups_name>>, "Var")

OpGetVar(ups_name, variable) ==
    Op("get_var", "get", "Get", <<Kw.VAR, ups_name, variable>>, "Var")

OpSetUsername(username) ==
    Op("set_username", "action", "SetUsername", <<username>>, "Ok")

OpGetNetworkVersion ==
    Op("get_network_version", "simple", "NetworkVersion", <<>>, "String")

NoOp == Op("none", "none", "none", <<>>, "none")

\* The last call: the operation, the line it wrote, what the server sent in
\* reply, the unread lines found on the wire before it (before) and left by
\* its reads (rest), its result, and whether the call before it failed with
\* a protocol error.
NoConnCall ==
    [op |-> NoOp, request |-> <<>>, script |-> Reply(<<>>, FALSE),
     before |-> <<>>, rest |-> <<>>, res |-> Ok(<<>>), after_failure |-> FALSE]

IsProtocolError(res) == res.kind = "Err" /\ res.err.type = "Nut"

ConnIdle ==
    /\ cn_pc = "idle"
    /\ cn_wire = <<>>
    /\ cn_closed = FALSE
    /\ cn_ops = 0
    /\ cn_last = NoConnCall

\* A connection just opened: nothing written, nothing received.
ConnInit ==
    /\ cn_pc = "open"
    /\ cn_wire = <<>>
    /\ cn_closed = FALSE
    /\ cn_ops = 0
    /\ cn_last = NoConnCall

\* One operation from its write_cmd to its return.  The server answers the
\* request with one of its scripts (nothing more once it has closed).  Each
\* read_response, read_plain_response and read_list reads through a BufReader
\* of its own, dropped at return with what it holds: of the lines the server
\* had sent and the call did not read, the first k were in that buffer and
\* are lost, the others stay on the wire.
ConnCall(op) ==
    /\ cn_pc = "open"
    /\ cn_ops < MaxOps
    /\ \E script \in (IF cn_closed THEN {Reply(<<>>, TRUE)} ELSE Scripts) :
       \E a \in {Answer(op, cn_wire \o script.lines, script.close)} :
       \E k \in 0..Len(a.rest) :
          /\ cn_wire' = SubSeq(a.rest, k + 1, Len(a.rest))
          /\ cn_closed' = script.close
          /\ cn_last' = [op |-> op,
                         request |-> Command_line(CommandOf(op)),
                         script |-> script,
                         before |-> cn_wire,
                         rest |-> a.rest,
                         res |-> a.res,
                         after_failure |-> IsProtocolError(cn_last.res)]
          /\ cn_pc' = CASE a.res.kind = "Panic" -> "aborted"
                        [] a.res.kind = "Blocked" -> "blocked"
                        [] OTHER -> "open"
          /\ cn_ops' = cn_ops + 1
    /\ UNCHANGED notConn

ConnListUps == ConnCall(OpListUps)

ConnListVars == \E u \in {Names.nutdev, Names.nope} : ConnCall(OpListVars(u))

ConnGetVar ==
    \E variable \in {Names.a, Names.uptime} :
        ConnCall(OpGetVar(Names.nutdev, variable))

ConnSetUsername == \E op \in {OpSetUsername(Names.user)} : ConnCall(op)

ConnGetNetworkVersion == ConnCall(OpGetNetworkVersion)

ConnNext ==
    \/ ConnListUps
    \/ ConnListVars
    \/ ConnGetVar
    \/ ConnSetUsername
    \/ ConnGetNetworkVersion

\* The lines the last call read: the unread lines it found and the reply,
\* less what its reads left.
ConnUsed ==
    LET all == cn_last.before \o cn_last.script.lines
    IN  SubSeq(all, 1, Len(all) - Len(cn_last.rest))

\* The words of a line of the wire.
LineWords(line) ==
    LET w == ShellSplit(SubSeq(line, 1, Len(line) - 1))
    IN  IF w.ok THEN w.words ELSE <<>>

\* The keyword of the responses of one type.
KeywordOf(type) ==
    ResponseTable[CHOOSE i \in 1..Len(ResponseTable) : ResponseTable[i].type = type].kw

StartsWith(ws, prefix) ==
    Len(ws) >= Len(prefix) /\ SubSeq(ws, 1, Len(prefix)) = prefix

\* C6: a list operation whose first response line is not BEGIN LIST with
\* exactly the query words it sent fails with a protocol error; it returns
\* Ok(items) only when BEGIN LIST matched, every line up to the last one was
\* an item of the expected type, one item per line, and the last line read
\* was an END LIST.
C6_QueryEcho ==
    cn_last.op.family = "list" =>
        \A used \in {ConnUsed} :
            /\ (/\ used # <<>>
                /\ LineWords(used[1]) # <<Kw.BEGIN, Kw.LIST>> \o cn_last.op.query) =>
                  IsProtocolError(cn_last.res)
            /\ cn_last.res.kind = "Ok" =>
                  /\ Len(used) >= 2
                  /\ LineWords(used[1]) = <<Kw.BEGIN, Kw.LIST>> \o cn_last.op.query
                  /\ StartsWith(LineWords(used[Len(used)]), <<Kw.END, Kw.LIST>>)
                  /\ Len(cn_last.res.val) = Len(used) - 2
                  /\ \A i \in 2..(Len(used) - 1) :
                        LineWords(used[i])[1] = KeywordOf(cn_last.op.type)

\* C6 witness: list_vars("nutdev") was answered with the list of UPS
\* devices and failed with UnexpectedResponse.
C6_Witness ==
    /\ cn_last.op = OpListVars(Names.nutdev)
    /\ cn_last.before = <<>>
    /\ cn_last.script.lines = <<Line.begin_ups, Line.ups, Line.end_ups>>
    /\ cn_last.res = ErrTyped("UnexpectedResponse")

\* C7: a list operation returns a list only when the END LIST line it read
\* carries the query words of the request.
C7_EndListMatches ==
    (cn_last.op.family = "list" /\ cn_last.res.kind = "Ok") =>
        \A used \in {ConnUsed} :
            LineWords(used[Len(used)]) = <<Kw.END, Kw.LIST>> \o cn_last.op.query

\* C7, the case found: list_vars("nutdev") answered BEGIN LIST VAR nutdev,
\* one VAR line, END LIST UPS returns the list.
C7_Diverges ==
    /\ cn_last.op = OpListVars(Names.nutdev)
    /\ cn_last.script.lines = <<Line.begin_var, Line.var, Line.end_ups>>
    /\ cn_last.before = <<>>
    /\ cn_last.res.kind = "Ok"
    /\ Len(cn_last.res.val) = 1

\* C8: after a call that failed with a protocol error, the first line the
\* next call reads is the first line of the reply to its own request; no
\* line of an earlier reply is on the wire.
C8_NoLeftover ==
    (cn_last.after_failure /\ ConnUsed # <<>>) =>
        /\ cn_last.before = <<>>
        /\ ConnUsed[1] = cn_last.script.lines[1]

\* C8, the case found: after a list that failed at its BEGIN LIST line,
\* set_username answered OK reads a line of that list and fails.
C8_Diverges ==
    /\ cn_last.after_failure
    /\ cn_last.op = OpSetUsername(Names.user)
    /\ cn_last.before # <<>>
    /\ cn_last.script.lines = <<Line.ok>>
    /\ cn_last.res = ErrTyped("UnexpectedResponse")

\* C8, the part that holds: after a refusal by ERR USERNAME-REQUIRED nothing
\* is left on the wire and set_username answered OK succeeds.
C8_AfterErrClean ==
    (/\ cn_last.after_failure
     /\ cn_last.before = <<>>
     /\ cn_last.op = OpSetUsername(Names.user)
     /\ cn_last.script.lines = <<Line.ok>>) => cn_last.res = Ok(<<>>)

\* C9: an operation whose reply is ERR <code>, code in the error-code list,
\* fails with the typed kind of the code.
C9_TypedErrors ==
    \A c \in ErrCodes :
        (/\ cn_last.op # NoOp
         /\ cn_last.before = <<>>
         /\ cn_last.script.lines = <<ErrLine(c)>>) =>
            cn_last.res = Err(ErrNut(NutError_from(RespondErr(c, <<>>))))

\* C9, the case found: set_username answered ERR USERNAME-REQUIRED fails
\* with a Generic error, not with UsernameRequired.
C9_Diverges ==
    /\ cn_last.op = OpSetUsername(Names.user)
    /\ cn_last.before = <<>>
    /\ cn_last.script.lines = <<ErrLine(StrUsernameRequired)>>
    /\ cn_last.res = ErrGeneric(Msg.server_error \o StrUsernameRequired \o <<SP>>)

\* C9, the part that holds: the three codes Response::from_args names give
\* their typed kind, whatever the operation read through read_response.
C9_NamedCodesTyped ==
    \A i \in 1..Len(FromArgsCodes) :
        (/\ cn_last.op.family \in {"list", "get", "action"}
         /\ cn_last.before = <<>>
         /\ cn_last.script.lines = <<ErrLine(FromArgsCodes[i].code)>>) =>
            cn_last.res = ErrTyped(FromArgsCodes[i].kind)

(***************************************************************************)
(* Opening a connection (blocking/mod.rs, blocking/client.rs): connect,    *)
(* enable_ssl, the network version, login; then the operations of the      *)
(* open connection and close.                                              *)
(***************************************************************************)
OpSetPassword(password) ==
    Op("set_password", "action", "SetPassword", <<password>>, "Ok")

OpStartTls == Op("enable_ssl", "action", "StartTLS", <<>>, "Ok")

OpLogout == Op("logout", "action", "Logout", <<>>, "Ok")

OpGetServerVersion == Op("get_server_version", "simple", "Version", <<>>, "String")

\* run_command(cmd, param): param is <<>> for None, <<p>> for Some(p).
OpRunCommand(cmd, param) == Op("run_command", "action", "Run", <<cmd>> \o param, "Ok")

\* The calls of Client: the sentence written and the sentence expected.
OpClientStartTls == Op("exec_start_tls", "client", "ExecStartTLS", <<>>, "StartTLSOk")

OpClientSetUsername(username) ==
    Op("set_username", "client", "SetUsername", <<username>>, "GenericOk")

OpClientSetPassword(password) ==
    Op("set_password", "client", "SetPassword", <<password>>, "GenericOk")

OpClientLogin(ups_name) == Op("exec_login", "client", "ExecLogin", <<ups_name>>, "GenericOk")

\* The credentials and the names of the sessions.
Credentials ==
    [username |-> <<"a", "l", "i", "c", "e">>, password |-> <<"s", "3", "c", "r", "e",
                                             "t">>]

CommandNames ==
    [load_off |-> <<"l", "o", "a", "d", ".", "o", "f", "f">>, ten |-> <<"1", "0">>, b |-> <<"b">>]

\* The sentence a call of Client writes.
ClientSentence(op) ==
    [name |-> op.cmd,
     fields |-> CASE op.cmd = "SetUsername" -> [f \in {"username"} |-> op.query[1]]
                  [] op.cmd = "SetPassword" -> [f \in {"password"} |-> op.query[1]]
                  [] op.cmd = "ExecLogin" -> [f \in {"ups_name"} |-> op.query[1]]
                  [] OTHER -> [f \in {} |-> <<>>]]

\* The line an operation writes: write_cmd for Connection, write_sentence
\* for Client.
RequestLine(op) ==
    IF op.family = "client"
    THEN join_sentence(Sentences_encode(ServerCatalog, ClientSentence(op)))
    ELSE Command_line(CommandOf(op))

\* A call of Client after its write: one sentence is read and must be the
\* one expected.
ClientAnswer(op, wire, closed) ==
    LET r == read_sentence("client", IF wire = <<>> THEN <<>> ELSE Head(wire))
    IN  [res |-> IF wire = <<>> /\ ~closed THEN Blocked
                 ELSE IF r.res.kind # "Ok" THEN r.res
                 ELSE IF r.res.val[1].name = op.type THEN Ok(<<>>)
                 ELSE ErrTyped("UnexpectedResponse"),
         rest |-> IF wire = <<>> THEN wire ELSE Tail(wire)]

\* What an operation makes of the lines on the wire.
AnswerOf(op, wire, closed) ==
    IF op.family = "client" THEN ClientAnswer(op, wire, closed)
    ELSE Answer(op, wire, closed)

\* enable_ssl without the map_err.
MapNoError(res) == res

\* enable_ssl, the map_err of the STARTTLS response.
MapStartTlsError(res) ==
    IF res = ErrTyped("FeatureNotConfigured") THEN ErrTyped("SslNotSupported") ELSE res

\* enable_ssl from the response to STARTTLS to the end of expect_ok.
StartTlsAnswer(api, wire, closed) ==
    IF api = "Client"
    THEN LET c == ClientAnswer(OpClientStartTls, wire, closed)
         IN  [res |-> MapStartTlsError(c.res), rest |-> c.rest]
    ELSE LET r == read_response(wire, closed)
             mapped == MapStartTlsError(r.res)
         IN  [res |-> IF mapped.kind # "Ok" THEN mapped
                      ELSE IF expect_ok(mapped.val[1]).kind = "Ok" THEN Ok(<<>>)
                      ELSE expect_ok(mapped.val[1]),
              rest |-> r.rest]

OpenConfigs ==
    [ssl : BOOLEAN, ssl_insecure : BOOLEAN, host : {"dns", "ip"},
     auth : {"none", "user", "userpass"}]

\* The lines a server sends during a session.
OpenLine ==
    [ok_starttls |-> <<"O", "K", SP, "S", "T", "A", "R", "T", "T", "L",
                       "S", NL>>,
     ok_goodbye |-> <<"O", "K", SP, "G", "o", "o", "d", "b", "y", "e",
                      NL>>,
     ok_fsd_set |-> <<"O", "K", SP, "F", "S", "D", "-", "S", "E", "T",
                      NL>>,
     ups_a |-> <<"U", "P", "S", SP, "a", SP, DQ, "A", DQ, NL>>,
     ups_b |-> <<"U", "P", "S", SP, "b", SP, DQ, "B", DQ, NL>>,
     version |-> <<DQ, "N", "e", "t", "w", "o", "r", "k", SP, "U", "P",
                   "S", DQ, SP, SP, "T", "o", "o", "l", "s", SP, "u",
                   "p", "s", "d", SP, "2", ".", "7", ".", "4", NL>>]

\* What the server sends in reply to a line of the opening.
OpenReplies ==
    {Reply(<<Line.ok>>, FALSE),
     Reply(<<OpenLine.ok_starttls>>, FALSE),
     Reply(<<OpenLine.ok_goodbye>>, FALSE),
     Reply(<<OpenLine.ok_fsd_set>>, FALSE),
     Reply(<<ErrLine(FromArgsCodes[3].code)>>, FALSE),
     Reply(<<ErrLine(FromArgsCodes[1].code)>>, FALSE),
     Reply(<<Line.netver>>, FALSE),
     Reply(<<>>, TRUE)}

\* What the server sends in reply to a request of the open connection.
SessionReplies ==
    {Reply(<<Line.ok>>, FALSE),
     Reply(<<OpenLine.ok_goodbye>>, FALSE),
     Reply(<<ErrLine(FromArgsCodes[1].code)>>, FALSE),
     Reply(<<Line.begin_ups, OpenLine.ups_a, OpenLine.ups_b, Line.end_ups>>, FALSE),
     Reply(<<OpenLine.version>>, FALSE)}

\* Most operations between the opening and the close.
MaxSessionOps == 1

\* What is written, read and done on the stream, in order: a line written
\* (with the number of lines then unread), a line read, the stream wrapped,
\* the constructor returned.
Ev(dir, line, tls, pending) ==
    [dir |-> dir, line |-> line, tls |-> tls, pending |-> pending]

ReadEvents(lines, tls) == [i \in 1..Len(lines) |-> Ev("r", lines[i], tls, 0)]

NoStep == [step |-> "none", op |-> NoOp, script |-> Reply(<<>>, FALSE)]

OpenIdle ==
    /\ op_pc = "idle"
    /\ op_api = "Connection"
    /\ op_cfg = [ssl |-> FALSE, ssl_insecure |-> FALSE, host |-> "dns", auth |-> "none"]
    /\ op_feature = FALSE
    /\ op_tls = FALSE
    /\ op_hs = FALSE
    /\ op_written = <<>>
    /\ op_log = <<>>
    /\ op_wire = <<>>
    /\ op_calls = <<>>
    /\ op_last = NoStep
    /\ op_res = Ok(<<>>)

\* Connection::new or Client::new is called with a configuration; the crate
\* is built with or without its ssl feature.
OpenInit ==
    /\ op_pc = "connect"
    /\ op_api \in {"Connection", "Client"}
    /\ op_cfg \in OpenConfigs
    /\ op_feature \in BOOLEAN
    /\ op_tls = FALSE
    /\ op_hs = FALSE
    /\ op_written = <<>>
    /\ op_log = <<>>
    /\ op_wire = <<>>
    /\ op_calls = <<"new">>
    /\ op_last = NoStep
    /\ op_res = Ok(<<>>)

\* Connection::new is called without ssl, then the connection is used.
SessionInit ==
    /\ op_pc = "connect"
    /\ op_api = "Connection"
    /\ op_cfg \in {c \in OpenConfigs : ~c.ssl /\ ~c.ssl_insecure /\ c.host = "dns"}
    /\ op_feature = FALSE
    /\ op_tls = FALSE
    /\ op_hs = FALSE
    /\ op_written = <<>>
    /\ op_log = <<>>
    /\ op_wire = <<>>
    /\ op_calls = <<"new">>
    /\ op_last = NoStep
    /\ op_res = Ok(<<>>)

\* The position after a step that ended with res: next when it is Ok,
\* failed when it is an error.
OpenAfter(res, next, failed) ==
    CASE res.kind = "Ok" -> next
      [] res.kind = "Panic" -> "aborted"
      [] OTHER -> failed

\* TcpConnection::new, Client::new_tcp: TcpStream::connect_timeout
OpenConnect ==
    /\ op_pc = "connect"
    /\ \E connected \in BOOLEAN :
          /\ op_res' = IF connected THEN Ok(<<>>) ELSE Err(ErrIo("connect"))
          /\ op_pc' = OpenAfter(op_res', "enable_ssl", "failed")
    /\ UNCHANGED <<op_api, op_cfg, op_feature, op_tls, op_hs, op_written, op_log,
                   op_wire, op_calls, op_last>>
    /\ UNCHANGED notOpen

\* The ClientSession of enable_ssl: strict verification needs a hostname
\* that is a DNS name.
OpenSession(cfg) ==
    IF ~cfg.ssl_insecure /\ cfg.host = "ip" THEN ErrTyped("SslInvalidHostname")
    ELSE Ok(<<>>)

\* Where the constructor goes after enable_ssl: Connection::new to the
\* network version, Client::new returns (login is the next call).
AfterEnableSsl(api) == IF api = "Client" THEN "login" ELSE "netver"

Returned(api, tls) == IF api = "Client" THEN <<Ev("opened", <<>>, tls, 0)>> ELSE <<>>

\* enable_ssl.  Built with the ssl feature and ssl set: STARTTLS is written,
\* one response is read, FeatureNotConfigured becomes SslNotSupported, the
\* response must be OK, the session is built and the stream is wrapped.
\* Built without the feature, or ssl not set: nothing is done.
OpenEnableSsl ==
    /\ op_pc = "enable_ssl"
    /\ IF op_feature /\ op_cfg.ssl
       THEN \E script \in OpenReplies :
            \E op \in {IF op_api = "Client" THEN OpClientStartTls ELSE OpStartTls} :
            \E a \in {StartTlsAnswer(op_api, script.lines, script.close)} :
            \E res \in {IF a.res.kind # "Ok" THEN a.res ELSE OpenSession(op_cfg)} :
               /\ op_written' = Append(op_written, [line |-> RequestLine(op), tls |-> op_tls])
               /\ op_log' = op_log \o <<Ev("w", RequestLine(op), op_tls, Len(op_wire))>>
                              \o ReadEvents(SubSeq(script.lines, 1,
                                                   Len(script.lines) - Len(a.rest)), op_tls)
                              \o (IF res.kind = "Ok"
                                  THEN <<Ev("wrap", <<>>, TRUE, 0)>> \o Returned(op_api, TRUE)
                                  ELSE <<>>)
               /\ op_res' = res
               /\ op_tls' = (res.kind = "Ok")
               /\ op_last' = [step |-> "starttls", op |-> op, script |-> script]
               /\ op_pc' = OpenAfter(res, AfterEnableSsl(op_api), "failed")
       ELSE /\ op_pc' = AfterEnableSsl(op_api)
            /\ op_log' = op_log \o Returned(op_api, op_tls)
            /\ UNCHANGED <<op_written, op_res, op_tls, op_last>>
    /\ UNCHANGED <<op_api, op_cfg, op_feature, op_hs, op_wire, op_calls>>
    /\ UNCHANGED notOpen

\* One operation on the stream as it is, wrapped or plain: its line is
\* written and the reply is read.  The TLS handshake runs at the first write
\* on the wrapped stream; when it fails the write fails.  Connection reads
\* through a BufReader of its own for each call, dropped at return with the
\* k unread lines it holds; Client keeps one buffered stream.
OpenExchange(step, op, scripts, next, failed, returns) ==
    \E script \in scripts :
    \E handshake \in (IF op_tls /\ ~op_hs THEN BOOLEAN ELSE {TRUE}) :
       IF handshake
       THEN \E all \in {op_wire \o script.lines} :
            \E a \in {AnswerOf(op, all, script.close)} :
            \E k \in (IF op.family = "client" THEN {0} ELSE 0..Len(a.rest)) :
               /\ op_written' = Append(op_written, [line |-> RequestLine(op), tls |-> op_tls])
               /\ op_log' = op_log \o <<Ev("w", RequestLine(op), op_tls, Len(op_wire))>>
                              \o ReadEvents(SubSeq(all, 1, Len(all) - Len(a.rest)), op_tls)
                              \o (IF returns /\ a.res.kind = "Ok"
                                  THEN <<Ev("opened", <<>>, op_tls, 0)>> ELSE <<>>)
               /\ op_wire' = SubSeq(a.rest, k + 1, Len(a.rest))
               /\ op_hs' = op_tls
               /\ op_res' = a.res
               /\ op_last' = [step |-> step, op |-> op, script |-> script]
               /\ op_pc' = OpenAfter(a.res, next, failed)
       ELSE /\ op_res' = Err(ErrIo("handshake"))
            /\ op_last' = [step |-> step, op |-> op, script |-> Reply(<<>>, FALSE)]
            /\ op_pc' = "failed"
            /\ UNCHANGED <<op_written, op_log, op_wire, op_hs>>

\* Connection::new: conn.get_network_version()
OpenGetNetworkVersion ==
    /\ op_pc = "netver"
    /\ OpenExchange("netver", OpGetNetworkVersion, OpenReplies, "login", "failed", FALSE)
    /\ UNCHANGED <<op_api, op_cfg, op_feature, op_tls, op_calls>>
    /\ UNCHANGED notOpen

\* login going on to the password whatever the credentials are.
LoginAlwaysPassword(api, auth) == "password"

\* login: where it goes after the username.
LoginAfterUsername(api, auth) ==
    IF auth = "userpass" THEN "password"
    ELSE IF api = "Client" THEN "login_ups" ELSE "ready"

\* login: set_username when the configuration has credentials.
OpenLoginUsername ==
    /\ op_pc = "login"
    /\ op_calls' = IF op_api = "Client" THEN Append(op_calls, "login") ELSE op_calls
    /\ IF op_cfg.auth = "none"
       THEN /\ op_pc' = "ready"
            /\ op_res' = Ok(<<>>)
            /\ op_log' = op_log \o (IF op_api = "Client" THEN <<>>
                                    ELSE <<Ev("opened", <<>>, op_tls, 0)>>)
            /\ op_last' = [step |-> "login", op |-> NoOp, script |-> Reply(<<>>, FALSE)]
            /\ UNCHANGED <<op_written, op_wire, op_hs>>
       ELSE \E next \in {LoginAfterUsername(op_api, op_cfg.auth)} :
               OpenExchange("username",
                            IF op_api = "Client" THEN OpClientSetUsername(Credentials.username)
                            ELSE OpSetUsername(Credentials.username),
                            OpenReplies, next, "failed", next = "ready")
    /\ UNCHANGED <<op_api, op_cfg, op_feature, op_tls>>
    /\ UNCHANGED notOpen

\* login: set_password when the credentials have a password.
OpenLoginPassword ==
    /\ op_pc = "password"
    /\ IF op_api = "Client"
       THEN OpenExchange("password", OpClientSetPassword(Credentials.password),
                         OpenReplies, "login_ups", "failed", FALSE)
       ELSE OpenExchange("password", OpSetPassword(Credentials.password),
                         OpenReplies, "ready", "failed", TRUE)
    /\ UNCHANGED <<op_api, op_cfg, op_feature, op_tls, op_calls>>
    /\ UNCHANGED notOpen

\* Client::login: exec_login(ups_name) after the credentials.
OpenLoginUps ==
    /\ op_pc = "login_ups"
    /\ OpenExchange("login_ups", OpClientLogin(Names.a), OpenReplies, "ready", "failed", FALSE)
    /\ UNCHANGED <<op_api, op_cfg, op_feature, op_tls, op_calls>>
    /\ UNCHANGED notOpen

OpenNext ==
    \/ OpenConnect
    \/ OpenEnableSsl
    \/ OpenGetNetworkVersion
    \/ OpenLoginUsername
    \/ OpenLoginPassword
    \/ OpenLoginUps

\* An operation of the open connection; the connection stays open whatever
\* the result is.
SessionCall(name, op) ==
    /\ op_pc = "ready"
    /\ Len(op_calls) < 1 + MaxSessionOps
    /\ op_calls' = Append(op_calls, name)
    /\ OpenExchange(name, op, SessionReplies, "ready", "ready", FALSE)
    /\ UNCHANGED <<op_api, op_cfg, op_feature, op_tls>>
    /\ UNCHANGED notOpen

SessionListUps == SessionCall("list_ups", OpListUps)

SessionGetServerVersion == SessionCall("get_server_version", OpGetServerVersion)

SessionGetNetworkVersion == SessionCall("get_network_version", OpGetNetworkVersion)

SessionRunCommand ==
    \E cmd \in {Names.a, CommandNames.load_off} :
    \E param \in {<<>>, <<CommandNames.load_off>>, <<CommandNames.ten>>} :
       SessionCall("run_command", OpRunCommand(cmd, param))

\* Connection::close: logout, and the connection is consumed.
SessionClose ==
    /\ op_pc = "ready"
    /\ op_calls' = Append(op_calls, "close")
    /\ OpenExchange("close", OpLogout, SessionReplies, "consumed", "consumed", FALSE)
    /\ UNCHANGED <<op_api, op_cfg, op_feature, op_tls>>
    /\ UNCHANGED notOpen

SessionNext ==
    \/ OpenConnect
    \/ OpenEnableSsl
    \/ OpenGetNetworkVersion
    \/ OpenLoginUsername
    \/ OpenLoginPassword
    \/ SessionListUps
    \/ SessionGetServerVersion
    \/ SessionGetNetworkVersion
    \/ SessionRunCommand
    \/ SessionClose

\* A line that carries a credential.
IsCredential(line) ==
    LineWords(line) # <<>> /\ LineWords(line)[1] \in {Kw.USERNAME, Kw.PASSWORD}

OpeningInOrder ==
    /\ op_written # <<>> => LineWords(op_written[1].line) = <<Kw.STARTTLS>>
    /\ \A i \in 1..Len(op_written) :
          IsCredential(op_written[i].line) => op_written[i].tls
    /\ ~op_tls => \A i \in 1..Len(op_written) : ~IsCredential(op_written[i].line)

\* C10: when ssl is set the first line written is STARTTLS, USERNAME and
\* PASSWORD are written only on the wrapped stream, and none is written when
\* the stream has not been wrapped.
C10_OpeningOrder == op_cfg.ssl => OpeningInOrder

\* C10, the case found: built without the ssl feature, ssl set, the username
\* has been written on the plain stream and STARTTLS never.
C10_Diverges ==
    /\ op_cfg.ssl
    /\ ~op_feature
    /\ ~op_tls
    /\ \E i \in 1..Len(op_written) :
          /\ LineWords(op_written[i].line) = <<Kw.USERNAME, Credentials.username>>
          /\ ~op_written[i].tls
    /\ \A i \in 1..Len(op_written) : LineWords(op_written[i].line) # <<Kw.STARTTLS>>

\* C10, the part that holds: built with the ssl feature the opening is in
\* order.
C10_WithSslFeature == (op_cfg.ssl /\ op_feature) => OpeningInOrder

\* The stream is wrapped at position i of the log after STARTTLS was written
\* on the plain stream and exactly one line was read.
WrappedAfterOneLine(i) ==
    /\ i = 3
    /\ op_log[1].dir = "w"
    /\ ~op_log[1].tls
    /\ LineWords(op_log[1].line) = <<Kw.STARTTLS>>
    /\ op_log[2].dir = "r"

\* C11: the stream is wrapped only after the one line read in reply to
\* STARTTLS was exactly OK STARTTLS; after any other reply the opening does
\* not go on and the stream is not wrapped.
C11_OnlyOkStartTls ==
    /\ \A i \in 1..Len(op_log) :
          op_log[i].dir = "wrap" =>
             WrappedAfterOneLine(i) /\ op_log[2].line = OpenLine.ok_starttls
    /\ (op_last.step = "starttls" /\ op_last.script.lines # <<OpenLine.ok_starttls>>)
          => (op_res.kind # "Ok" /\ ~op_tls)

\* C11, the case found: Connection wraps the stream after a bare OK.
C11_Diverges ==
    /\ op_api = "Connection"
    /\ op_tls
    /\ Len(op_log) >= 3
    /\ op_log[3].dir = "wrap"
    /\ op_log[2].dir = "r"
    /\ op_log[2].line = Line.ok

\* C11, the part that holds: exactly one line is read between STARTTLS and
\* the wrap, and its first word is OK.
C11_OneLineRead ==
    \A i \in 1..Len(op_log) :
       op_log[i].dir = "wrap" =>
          WrappedAfterOneLine(i) /\ LineWords(op_log[2].line)[1] = Kw.OK

\* The result of the STARTTLS step before its map_err.
UnmappedStartTls(api, script) ==
    IF api = "Client" THEN ClientAnswer(OpClientStartTls, script.lines, script.close).res
    ELSE read_response(script.lines, script.close).res

C12_WitnessOther ==
    /\ op_last.step = "username"
    /\ op_last.script.lines = <<ErrLine(FromArgsCodes[3].code)>>
    /\ op_res = ErrTyped("FeatureNotConfigured")

\* NETVER is written on the wrapped stream at position m of the log and a
\* line is read in reply.
IsNetverExchange(m) ==
    /\ op_log[m].dir = "w"
    /\ op_log[m].tls
    /\ LineWords(op_log[m].line) = <<Kw.NETVER>>
    /\ m < Len(op_log)
    /\ op_log[m + 1].dir = "r"

NetverAfterWrap ==
    \A i \in 1..Len(op_log) : \A j \in 1..Len(op_log) :
       (/\ op_log[i].dir = "wrap"
        /\ i < j
        /\ \/ op_log[j].dir = "opened"
           \/ op_log[j].dir = "w" /\ IsCredential(op_log[j].line))
       => \E m \in (i + 1)..(j - 1) : IsNetverExchange(m)

\* C13: between the wrap of the stream and the return of the constructor,
\* and before any credential is written, NETVER is written on the wrapped
\* stream and its reply is read.
C13_NetverAfterWrap == op_cfg.ssl => NetverAfterWrap

\* C13, the case found: Client::new returns right after the wrap.
C13_Diverges ==
    /\ op_api = "Client"
    /\ op_cfg.ssl
    /\ op_tls
    /\ \E i \in 1..(Len(op_log) - 1) :
          op_log[i].dir = "wrap" /\ op_log[i + 1].dir = "opened"
    /\ \A m \in 1..Len(op_log) : LineWords(op_log[m].line) # <<Kw.NETVER>>

\* C13, the part that holds: Connection::new.
C13_ConnectionApi == (op_cfg.ssl /\ op_api = "Connection") => NetverAfterWrap

StrictIp == op_cfg.ssl /\ ~op_cfg.ssl_insecure /\ op_cfg.host = "ip"

InvalidHostname ==
    /\ StrictIp =>
          /\ ~op_tls
          /\ \A i \in 1..Len(op_log) : op_log[i].dir # "wrap"
          /\ op_pc \in {"connect", "enable_ssl", "failed", "aborted"}
          /\ (op_last.step = "starttls"
                /\ StartTlsAnswer(op_api, op_last.script.lines,
                                  op_last.script.close).res.kind = "Ok")
                => op_res = ErrTyped("SslInvalidHostname")
    /\ op_cfg.ssl_insecure => op_res # ErrTyped("SslInvalidHostname")

\* C14: with ssl set, ssl_insecure not set and a hostname that is an IP
\* address the opening does not go past enable_ssl, the stream is never
\* wrapped and the STARTTLS step, once acknowledged, fails with
\* SslInvalidHostname; with ssl_insecure set no step fails with
\* SslInvalidHostname.
C14_InvalidHostname == InvalidHostname

\* C14, the case found: built without the ssl feature Connection::new
\* returns a plain connection.
C14_Diverges ==
    /\ StrictIp
    /\ ~op_feature
    /\ op_api = "Connection"
    /\ op_pc = "ready"
    /\ ~op_tls
    /\ op_res.kind = "Ok"

\* C14, the part that holds: built with the ssl feature.
C14_WithSslFeature == op_feature => InvalidHostname

\* C14, with the ssl feature: the opening answered OK STARTTLS has failed
\* with SslInvalidHostname.
C14_WitnessWithFeature ==
    /\ StrictIp
    /\ op_feature
    /\ op_last.step = "starttls"
    /\ op_last.script.lines = <<OpenLine.ok_starttls>>
    /\ op_res = ErrTyped("SslInvalidHostname")
    /\ op_pc = "failed"

IsWrite(i, words) ==
    /\ i \in 1..Len(op_log)
    /\ op_log[i].dir = "w"
    /\ LineWords(op_log[i].line) = words

\* The line at position i of the log was read and its first word is OK.
ReadOk(i) ==
    /\ i \in 1..Len(op_log)
    /\ op_log[i].dir = "r"
    /\ LineWords(op_log[i].line) # <<>>
    /\ LineWords(op_log[i].line)[1] = Kw.OK

\* The reply is one line whose first word is OK.
ReplyIsOk(script) ==
    /\ Len(script.lines) = 1
    /\ LineWords(script.lines[1]) # <<>>
    /\ LineWords(script.lines[1])[1] = Kw.OK

CredentialWrites ==
    {i \in 1..Len(op_log) : op_log[i].dir = "w" /\ IsCredential(op_log[i].line)}

C15_WitnessStopped ==
    /\ op_cfg.auth = "userpass"
    /\ op_last.step = "username"
    /\ op_res.kind = "Err"
    /\ op_pc = "failed"
    /\ Cardinality(CredentialWrites) = 1

\* The lines written, in order.
WrittenLines == [i \in 1..Len(op_written) |-> op_written[i].line]

\* The position in the log of the last line written, and the lines read
\* after it.
LastWriteAt ==
    CHOOSE i \in 1..Len(op_log) :
        op_log[i].dir = "w" /\ \A j \in (i + 1)..Len(op_log) : op_log[j].dir # "w"

LastReads ==
    SelectSeq(SubSeq(op_log, LastWriteAt + 1, Len(op_log)), LAMBDA e : e.dir = "r")

Logouts == {i \in 1..Len(op_written) : LineWords(op_written[i].line) = <<Kw.LOGOUT>>}

\* C16: close writes one LOGOUT line, reads one line, succeeds only if that
\* line is OK Goodbye, and leaves the connection consumed.
C16_Close ==
    op_last.step = "close" =>
       /\ LineWords(op_log[LastWriteAt].line) = <<Kw.LOGOUT>>
       /\ Cardinality(Logouts) = 1
       /\ Len(LastReads) = 1
       /\ op_res.kind = "Ok" => LastReads[1].line = OpenLine.ok_goodbye
       /\ op_pc = "consumed"

\* C16, the case found: close answered a bare OK has succeeded.
C16_Diverges ==
    /\ op_last.step = "close"
    /\ op_last.script.lines = <<Line.ok>>
    /\ LastReads = <<Ev("r", Line.ok, FALSE, 0)>>
    /\ op_res.kind = "Ok"

\* C16, the part that holds: one LOGOUT, one line read, LOGOUT the last line
\* written on a consumed connection.
C16_LogoutLast ==
    op_pc = "consumed" =>
       /\ Cardinality(Logouts) = 1
       /\ Logouts = {Len(op_written)}
       /\ Len(LastReads) = 1

\* The scenario S1: credentials with a password, no TLS, Connection::new,
\* list_ups, close, all done.
ScenarioS1 ==
    /\ op_api = "Connection"
    /\ op_cfg.auth = "userpass"
    /\ ~op_cfg.ssl
    /\ op_calls = <<"new", "list_ups", "close">>
    /\ op_pc = "consumed"
    /\ op_res.kind = "Ok"

S1Lines ==
    <<<<"U", "S", "E", "R", "N", "A", "M", "E", SP, "a", "l", "i", "c",
        "e", NL>>,
      <<"P", "A", "S", "S", "W", "O", "R", "D", SP, "s", "3", "c", "r",
        "e", "t", NL>>,
      <<"L", "I", "S", "T", SP, "U", "P", "S", NL>>,
      <<"L", "O", "G", "O", "U", "T", NL>>>>

\* C17: in the scenario S1 the lines written are USERNAME alice, PASSWORD
\* s3cret, LIST UPS, LOGOUT, in this order and no other, each written with
\* no line left unread.
C17_ScenarioS1 ==
    ScenarioS1 =>
       /\ WrittenLines = S1Lines
       /\ \A i \in 1..Len(op_log) : op_log[i].dir = "w" => op_log[i].pending = 0

\* C17, the case found: Connection::new writes NETVER before the username.
C17_Diverges ==
    /\ ScenarioS1
    /\ WrittenLines = <<Kw.NETVER \o <<NL>>>> \o S1Lines

\* C17, the part that holds: after NETVER the lines are those of S1.
C17_AfterNetver ==
    ScenarioS1 =>
       /\ Tail(WrittenLines) = S1Lines
       /\ \A i \in 1..Len(op_log) : op_log[i].dir = "w" => op_log[i].pending = 0

\* C18: run_command for the UPS a writes one line INSTCMD a <cmd>, followed
\* by the argument when there is one, reads one line and returns Ok exactly
\* when that line is a bare OK.
C18_RunCommand ==
    op_last.step = "run_command" =>
       /\ LineWords(op_log[LastWriteAt].line) = <<Kw.INSTCMD, Names.a>> \o op_last.op.query
       /\ Len(LastReads) = 1
       /\ op_res.kind = "Ok" <=> LastReads[1].line = Line.ok

\* C18, the case found: run_command("load.off", Some("10")) has written
\* INSTCMD load.off 10, without a UPS name.
C18_Diverges ==
    /\ op_last.step = "run_command"
    /\ op_last.op.query = <<CommandNames.load_off, CommandNames.ten>>
    /\ op_log[LastWriteAt].line = <<"I", "N", "S", "T", "C", "M", "D",
                                    SP, "l", "o", "a", "d", ".", "o",
                                    "f", "f", SP, "1", "0", NL>>

\* C18, the other case found: run_command answered OK Goodbye has returned
\* Ok.
C18_DivergesReply ==
    /\ op_last.step = "run_command"
    /\ op_last.script.lines = <<OpenLine.ok_goodbye>>
    /\ op_wire = <<>>
    /\ Len(LastReads) = 1
    /\ LastReads[1].line = OpenLine.ok_goodbye
    /\ op_res.kind = "Ok"

\* C18, the part that holds: one line of INSTCMD and at most two words is
\* written, one line is read, and a bare OK read gives Ok.
C18_OneLine ==
    op_last.step = "run_command" =>
       /\ LineWords(op_log[LastWriteAt].line) = <<Kw.INSTCMD>> \o op_last.op.query
       /\ Len(LastReads) = 1
       /\ LastReads[1].line = Line.ok => op_res.kind = "Ok"

\* A line as sent, without its newline, as the String an operation returns.
PlainString(line) == Ok(<<Item("String", "", <<SubSeq(line, 1, Len(line) - 1)>>, 0)>>)

\* C19: get_server_version writes VERSION, get_network_version writes
\* NETVER; each reads one line and returns it as sent, without its newline.
C19_Versions ==
    /\ op_last.step = "get_server_version" =>
          /\ op_log[LastWriteAt].line = <<"V", "E", "R", "S", "I", "O",
                                          "N", NL>>
          /\ Len(LastReads) = 1
          /\ op_res = PlainString(LastReads[1].line)
    /\ op_last.step \in {"netver", "get_network_version"} =>
          /\ op_log[LastWriteAt].line = <<"N", "E", "T", "V", "E", "R",
                                          NL>>
          /\ Len(LastReads) = 1
          /\ op_res = PlainString(LastReads[1].line)

\* C19, the case found: get_server_version has written VER.
C19_Diverges ==
    /\ op_last.step = "get_server_version"
    /\ op_log[LastWriteAt].line = <<"V", "E", "R", NL>>

\* C19, the other case found: the line returned is the words of the line
\* joined by one blank, not the line as sent.
C19_DivergesLine ==
    /\ op_last.step = "get_network_version"
    /\ Len(LastReads) = 1
    /\ LastReads[1].line = OpenLine.version
    /\ op_res.kind = "Ok"
    /\ op_res # PlainString(OpenLine.version)

\* C19, the part that holds: NETVER is written as one line and one line is
\* read, none when the server has closed the connection.
C19_NetverLine ==
    op_last.step \in {"netver", "get_network_version"} =>
       /\ op_log[LastWriteAt].line = <<"N", "E", "T", "V", "E", "R", NL>>
       /\ Len(LastReads) = (IF op_last.script.close THEN 0 ELSE 1)

(***************************************************************************)
(* read_sentences_until, one sentence read at a time (blocking/stream.rs,   *)
(* tokio/stream.rs): the loop and its cap                                  *)
(***************************************************************************)
\* What the stream holds next when a sentence is read: an item, the
\* terminator, an ERR sentence, the end of the stream.
UntilLines == {LineUps0, LineEndListUps, LineErrUsername, <<>>}

\* The matcher of a list of UPS.
UntilMatcher == {"EndListUps"}

UntilIdle ==
    /\ un_pc = "idle"
    /\ un_api = "blocking"
    /\ un_iter = 0
    /\ un_reads = 0
    /\ un_len = 0
    /\ un_res = Ok(<<>>)

\* read_sentences_until is called: result is empty, the loop at its start.
UntilInit ==
    /\ un_pc = "reading"
    /\ un_api \in {"blocking", "tokio"}
    /\ un_iter = 0
    /\ un_reads = 0
    /\ un_len = 0
    /\ un_res = Ok(<<>>)

\* What the call returns when the loop ends without a return.
UntilCapError == Err(ErrIo("Interrupted"))

\* One iteration of the loop: read_sentence, then the return of its error,
\* the return of the result at the terminator, or the push; the iteration
\* that ends the loop returns the error of the cap.
UntilRead ==
    /\ un_pc = "reading"
    /\ un_iter < max_iter
    /\ un_reads' = un_reads + 1
    /\ \E line \in UntilLines :
       \E r \in {read_sentence("client", line).res} :
          IF r.kind # "Ok"
          THEN /\ un_res' = r
               /\ un_pc' = "returned"
               /\ UNCHANGED <<un_iter, un_len>>
          ELSE IF r.val[1].name \in UntilMatcher
          THEN /\ un_res' = Ok(<<>>)
               /\ un_pc' = "returned"
               /\ UNCHANGED <<un_iter, un_len>>
          ELSE /\ un_len' = un_len + 1
               /\ un_iter' = un_iter + 1
               /\ un_pc' = IF un_iter' = max_iter THEN "returned" ELSE "reading"
               /\ un_res' = IF un_iter' = max_iter THEN UntilCapError ELSE un_res
    /\ UNCHANGED un_api
    /\ UNCHANGED notUntil

UntilNext == UntilRead

\* C20: at most 1000 sentences are read; a terminator among them returns the
\* sentences before it; 1000 sentences without a terminator return an error
\* of the protocol kind, not of the transport.
C20_Cap ==
    /\ un_reads <= max_iter
    /\ (un_pc = "returned" /\ un_res.kind = "Ok") => un_len = un_reads - 1
    /\ (un_pc = "returned" /\ un_len = max_iter)
          => (un_res.kind = "Err" /\ un_res.err.type = "Nut")

\* C20, the case found: after 1000 sentences the call has returned the
\* transport error Interrupted.
C20_Diverges ==
    /\ un_pc = "returned"
    /\ un_reads = max_iter
    /\ un_len = max_iter
    /\ un_res = Err(ErrIo("Interrupted"))

\* C20, the part that holds: at most 1000 reads, the sentences before the
\* terminator returned, an error and no list at the cap.
C20_AtMostThousand ==
    /\ un_reads <= max_iter
    /\ (un_pc = "returned" /\ un_res.kind = "Ok") => un_len = un_reads - 1
    /\ (un_pc = "returned" /\ un_len = max_iter) => un_res.kind = "Err"

(***************************************************************************)
(* read_sentence at the end of the stream, on a blank line and on a line   *)
(* with unbalanced quotes                                                   *)
(***************************************************************************)
\* C21: read_sentence on a stream at its end (the line read is empty)
\* returns the transport error UnexpectedEof and never a sentence; a blank
\* line (a newline only) is a protocol error of decoding, not the end of
\* the stream.
C21_EofAndBlank ==
    ss_call.op = "read_sentence" =>
        /\ ss_call.before = <<>> =>
              /\ ss_call.res = Err(Error_eof)
              /\ ss_call.res.err.type = "Io"
              /\ ss_call.res.err.io = "UnexpectedEof"
        /\ read_literal(ss_call.before).raw = LineEmpty =>
              /\ ss_call.res.kind = "Err"
              /\ ss_call.res.err.type = "Nut"
              /\ ss_call.res.err.nut = Typed("InvalidArgument")
        /\ ss_call.res = Err(Error_eof) => ss_call.before = <<>>

\* C21 witness: the stream was read to its end and the next read_sentence
\* returned the end-of-stream error.
C21_Witness ==
    /\ ss_call.op = "read_sentence"
    /\ ss_call.before = <<>>
    /\ ss_call.res = Err(Error_eof)
    /\ ss_pc = "eof"

\* C21 witness: a blank line followed by more lines was read and the read
\* failed with InvalidArgument, the lines after it left in the stream.
C21_WitnessBlank ==
    /\ ss_call.op = "read_sentence"
    /\ read_literal(ss_call.before).raw = LineEmpty
    /\ ss_call.res = Err(ErrNut(Typed("InvalidArgument")))
    /\ ss_stream # <<>>
    /\ ss_pc = "open"

\* A line split_sentence fails on.
Unbalanced(line) == line # <<>> /\ ~split_sentence(line).ok

\* C22: split_sentence fails on a line with unbalanced quotes; read_sentence
\* on such a line returns NotProcessable and has consumed exactly that line;
\* the next read_sentence returns what the following line gives.
C22_Unbalanced ==
    /\ ~split_sentence(LineUnbalanced).ok
    /\ (ss_call.op = "read_sentence" /\ Unbalanced(read_literal(ss_call.before).raw)) =>
          /\ ss_call.res = Err(ErrNut(Typed("NotProcessable")))
          /\ ss_stream = read_literal(ss_call.before).rest
          /\ ss_pc = "open"
    /\ (/\ ss_call.op = "read_sentence"
        /\ ss_call.prev.op = "read_sentence"
        /\ Unbalanced(read_literal(ss_call.prev.before).raw)) =>
          \A lines \in {LinesOf(ss_call.prev.before)} :
             /\ ss_call.before = Flatten(SubSeq(lines, 2, Len(lines)))
             /\ Len(lines) >= 2 =>
                   ss_call.res = read_sentence("client", lines[2]).res
             /\ Len(lines) < 2 => ss_call.res = Err(Error_eof)

\* C22 witness: the line UPS "x was read and refused as NotProcessable, and
\* the read after it returned the UPS sentence of the following line.
C22_Witness ==
    /\ ss_call.op = "read_sentence"
    /\ ss_call.prev.op = "read_sentence"
    /\ read_literal(ss_call.prev.before).raw = LineUnbalanced
    /\ ss_call.prev.res = Err(ErrNut(Typed("NotProcessable")))
    /\ read_literal(ss_call.before).raw = LineUps0
    /\ ss_call.res.kind = "Ok"
    /\ ss_call.res.val[1].name = "RespondUps"

(***************************************************************************)
(* Variables on the connection: get_var and list_vars never abort          *)
(***************************************************************************)
\* The value of the last VAR line the call read is an uptime that does not
\* parse as a number of seconds.
BadUptimeRead ==
    \E i \in 1..Len(ConnUsed) :
       \E w \in {LineWords(ConnUsed[i])} :
          /\ Len(w) = 4
          /\ w[1] = Kw.VAR
          /\ w[3] = Names.uptime
          /\ ~ParseU64(w[4]).ok

\* C23: get_var and list_vars return a success value or an error value for
\* every reply and never abort; a VAR reply for device.uptime whose value is
\* not a non-negative integer gives a protocol error.
C23_NeverAborts ==
    cn_last.op.name \in {"get_var", "list_vars"} =>
        /\ cn_last.res.kind \in {"Ok", "Err"}
        /\ (/\ cn_last.script.lines = <<Line.var_uptime_bad>>
            /\ cn_last.before = <<>>
            /\ cn_last.op.name = "get_var") => IsProtocolError(cn_last.res)

\* C23, the case found: get_var answered VAR nutdev device.uptime soon has
\* aborted the caller.
C23_Diverges ==
    /\ cn_last.op = OpGetVar(Names.nutdev, Names.uptime)
    /\ cn_last.before = <<>>
    /\ cn_last.script.lines = <<Line.var_uptime_bad>>
    /\ cn_last.res = Panicked
    /\ cn_pc = "aborted"

\* C23, the case found in a list: list_vars has aborted on the same line
\* between BEGIN LIST and END LIST.
C23_DivergesList ==
    /\ cn_last.op = OpListVars(Names.nutdev)
    /\ cn_last.before = <<>>
    /\ cn_last.script.lines = <<Line.begin_var, Line.var_uptime_bad, Line.end_var>>
    /\ cn_last.res = Panicked

\* C23, the part that holds: get_var and list_vars abort only on a line the
\* server closed without ending, on a line too short for its pattern and on
\* an uptime that is not a number; on every other reply they return a value
\* or an error.
C23_AbortsOnlyThere ==
    (cn_last.op.name \in {"get_var", "list_vars"} /\ cn_last.res.kind \notin {"Ok", "Err", "Blocked"}) =>
        \/ BadUptimeRead
        \/ cn_last.script.close
        \/ \E i \in 1..Len(ConnUsed) : ConnUsed[i] = Line.var_short

(***************************************************************************)
(* Transport errors on a connection: write_cmd and the reads after one     *)
(* (blocking/mod.rs, cmd.rs)                                               *)
(***************************************************************************)
\* Most operations made on one connection that meets transport errors.
MaxFailOps == 3

\* What follows a request on the transport: lines of the server, a line
\* that is not UTF-8 (read_line fails with InvalidData, the stream stays
\* up), a reset of the connection (read_line fails with ConnectionReset and
\* every later write fails).
Arrival(kind, lines) == [kind |-> kind, lines |-> lines]

Arrivals ==
    {Arrival("lines", ls) :
        ls \in {<<Line.ok>>, <<Line.var>>, <<Line.netver>>,
                <<Line.begin_ups, Line.ups, Line.end_ups>>,
                <<ErrLine(StrUsernameRequired)>>}}
    \cup {Arrival("invalid", <<>>), Arrival("reset", <<>>)}

\* What the call before did to the stream and what it returned.
NoFailCall ==
    [op |-> NoOp, arrival |-> Arrival("none", <<>>), write |-> "none",
     read |-> FALSE, res |-> Ok(<<>>), after_io |-> FALSE]

IsTransportError(res) == res.kind = "Err" /\ res.err.type = "Io"

FailIdle ==
    /\ fl_pc = "idle"
    /\ fl_link = "up"
    /\ fl_wire = <<>>
    /\ fl_failed = FALSE
    /\ fl_ops = 0
    /\ fl_last = NoFailCall

FailInit ==
    /\ fl_pc = "open"
    /\ fl_link = "up"
    /\ fl_wire = <<>>
    /\ fl_failed = FALSE
    /\ fl_ops = 0
    /\ fl_last = NoFailCall

\* The reads of an operation whose request was written: the first
\* read_line fails on a line that is not UTF-8 and on a reset connection,
\* and the ? of parse_line returns its error.
FailAnswer(op, wire, arrival) ==
    IF wire = <<>> /\ arrival.kind = "invalid"
    THEN [res |-> Err(ErrIo("InvalidData")), rest |-> <<>>]
    ELSE IF wire = <<>> /\ arrival.kind = "reset"
    THEN [res |-> Err(ErrIo("ConnectionReset")), rest |-> <<>>]
    ELSE Answer(op, wire \o arrival.lines, FALSE)

\* write_cmd: write_all and flush on the stream, whatever the calls before
\* returned; on a reset connection the write fails and the ? returns.
write_cmd(link) ==
    IF link = "up" THEN Ok(<<>>) ELSE Err(ErrIo("BrokenPipe"))

\* One operation, from write_cmd to its return.
FailCall(op) ==
    /\ fl_pc = "open"
    /\ fl_ops < MaxFailOps
    /\ fl_ops' = fl_ops + 1
    /\ \E w \in {write_cmd(fl_link)} :
       IF w.kind # "Ok"
       THEN /\ fl_last' = [op |-> op, arrival |-> Arrival("none", <<>>),
                           write |-> "failed", read |-> FALSE, res |-> w,
                           after_io |-> fl_failed]
            /\ fl_failed' = TRUE
            /\ UNCHANGED <<fl_pc, fl_link, fl_wire>>
       ELSE \E arrival \in Arrivals :
            \E a \in {FailAnswer(op, fl_wire, arrival)} :
            \E k \in 0..Len(a.rest) :
               /\ fl_wire' = SubSeq(a.rest, k + 1, Len(a.rest))
               /\ fl_link' = IF arrival.kind = "reset" THEN "reset" ELSE "up"
               /\ fl_last' = [op |-> op, arrival |-> arrival,
                              write |-> "written", read |-> TRUE,
                              res |-> a.res, after_io |-> fl_failed]
               /\ fl_failed' = (fl_failed \/ IsTransportError(a.res))
               /\ fl_pc' = CASE a.res.kind = "Panic" -> "aborted"
                             [] a.res.kind = "Blocked" -> "blocked"
                             [] OTHER -> "open"
    /\ UNCHANGED notFail

FailListUps == FailCall(OpListUps)

FailGetVar == \E op \in {OpGetVar(Names.nutdev, Names.a)} : FailCall(op)

FailSetUsername == \E op \in {OpSetUsername(Names.user)} : FailCall(op)

FailGetNetworkVersion == FailCall(OpGetNetworkVersion)

FailNext ==
    \/ FailListUps
    \/ FailGetVar
    \/ FailSetUsername
    \/ FailGetNetworkVersion

\* C24: after an operation of a connection has failed with a transport
\* error, every later operation on it is refused: it writes no request to
\* the stream and reads nothing from it.
C24_FailedRefuses ==
    fl_last.after_io =>
        /\ fl_last.write = "none"
        /\ ~fl_last.read
        /\ fl_last.res.kind = "Err"

\* C24, the case found: an operation failed with InvalidData, and the
\* get_var after it wrote its request, read the reply and returned the
\* variable.
C24_Diverges ==
    /\ fl_last.after_io
    /\ fl_last.op.name = "get_var"
    /\ fl_last.write = "written"
    /\ fl_last.read
    /\ fl_last.arrival = Arrival("lines", <<Line.var>>)
    /\ fl_last.res.kind = "Ok"

\* C24, the case found on a reset connection: the operation after the
\* failure called write_all on the stream and returned its error.
C24_DivergesReset ==
    /\ fl_last.after_io
    /\ fl_link = "reset"
    /\ fl_last.write = "failed"
    /\ fl_last.res = Err(ErrIo("BrokenPipe"))

\* C24, the part that holds: an operation whose write failed read nothing
\* and returned the error of the write, every transport error returned is
\* remembered as a failure of the connection, and once the connection is
\* reset every operation fails at its write.
C24_WriteFailureReadsNothing ==
    /\ fl_last.write = "failed" =>
          (~fl_last.read /\ fl_last.res = Err(ErrIo("BrokenPipe")))
    /\ IsTransportError(fl_last.res) => fl_failed
    /\ (fl_last.after_io /\ fl_last.arrival.kind = "none") =>
          (fl_link = "reset" /\ fl_last.write = "failed")

(***************************************************************************)
(* Exclusive access: every operation borrows the connection (&mut self)    *)
(* from its request to its return (cmd.rs, blocking/mod.rs, tokio/mod.rs)  *)
(***************************************************************************)
\* Most operations begun on one connection.
MaxExclOps == 3

\* The callers that hold a way to the one connection.
Callers == {1, 2}

\* The response lines an operation of each macro reads when the server
\* answers it in full: one for a get, three for a list of one item.
LinesToRead == [get |-> 1, list |-> 3]

NoOperation == [op |-> 0, lines |-> 0]

ExclIdle ==
    /\ ex_api = "none"
    /\ ex_borrow = {}
    /\ ex_run = [c \in Callers |-> NoOperation]
    /\ ex_log = <<>>
    /\ ex_ops = 0

ExclInit ==
    /\ ex_api \in {"blocking", "tokio"}
    /\ ex_borrow = {}
    /\ ex_run = [c \in Callers |-> NoOperation]
    /\ ex_log = <<>>
    /\ ex_ops = 0

\* A call of fn name(&mut self, ..) compiles with no borrow at all.
BorrowUnchecked == TRUE

\* A call of fn name(&mut self, ..) needs the connection unborrowed.
BorrowFree == ex_borrow = {}

\* The call of an operation and its write_cmd: the connection is borrowed
\* for the call and the request line written.
ExclBegin ==
    /\ BorrowFree
    /\ ex_ops < MaxExclOps
    /\ \E c \in Callers :
       \E family \in DOMAIN LinesToRead :
          /\ ex_run[c] = NoOperation
          /\ ex_borrow' = ex_borrow \cup {c}
          /\ ex_ops' = ex_ops + 1
          /\ ex_run' = [ex_run EXCEPT ![c] = [op |-> ex_ops', lines |-> LinesToRead[family]]]
          /\ ex_log' = Append(ex_log, [op |-> ex_ops', caller |-> c, dir |-> "w"])
    /\ UNCHANGED ex_api
    /\ UNCHANGED notExcl

\* One parse_line of the operation; after the last one the operation
\* returns and the borrow ends.
ExclRead ==
    /\ \E c \in Callers :
          /\ ex_run[c].lines > 0
          /\ ex_log' = Append(ex_log, [op |-> ex_run[c].op, caller |-> c, dir |-> "r"])
          /\ IF ex_run[c].lines = 1
             THEN /\ ex_run' = [ex_run EXCEPT ![c] = NoOperation]
                  /\ ex_borrow' = ex_borrow \ {c}
             ELSE /\ ex_run' = [ex_run EXCEPT ![c].lines = @ - 1]
                  /\ UNCHANGED ex_borrow
    /\ UNCHANGED <<ex_api, ex_ops>>
    /\ UNCHANGED notExcl

\* The future of an async operation is dropped at an await: the operation
\* reads no more and the borrow ends.
ExclCancel ==
    /\ ex_api = "tokio"
    /\ \E c \in Callers :
          /\ ex_run[c].lines > 0
          /\ ex_run' = [ex_run EXCEPT ![c] = NoOperation]
          /\ ex_borrow' = ex_borrow \ {c}
    /\ UNCHANGED <<ex_api, ex_log, ex_ops>>
    /\ UNCHANGED notExcl

ExclNext == ExclBegin \/ ExclRead \/ ExclCancel

\* C25: at most one operation is in progress on a connection: between the
\* request line of an operation and the last response line it reads no
\* other operation writes or reads the stream, on both surfaces.
C25_OneAtATime ==
    /\ Cardinality(ex_borrow) <= 1
    /\ Cardinality({c \in Callers : ex_run[c] # NoOperation}) <= 1
    /\ \A i, j, k \in 1..Len(ex_log) :
          (i < j /\ j < k /\ ex_log[i].op = ex_log[k].op) =>
              ex_log[j].op = ex_log[i].op

\* C25 witness: on the tokio surface a list of one caller was written and
\* read to its end, and then the other caller wrote its request.
C25_Witness ==
    /\ ex_api = "tokio"
    /\ Len(ex_log) = 5
    /\ \A i \in 1..4 : ex_log[i].op = 1 /\ ex_log[i].caller = 1
    /\ ex_log[5] = [op |-> 2, caller |-> 2, dir |-> "w"]
    /\ ex_borrow = {2}

\* C25 witness: the same on the blocking surface.
C25_WitnessBlocking ==
    /\ ex_api = "blocking"
    /\ Len(ex_log) = 5
    /\ \A i \in 1..4 : ex_log[i].op = 1 /\ ex_log[i].caller = 1
    /\ ex_log[5] = [op |-> 2, caller |-> 2, dir |-> "w"]
    /\ ex_borrow = {2}

(***************************************************************************)
(* The two surfaces side by side: blocking::Connection and                 *)
(* tokio::Connection against the same server (blocking/mod.rs,             *)
(* tokio/mod.rs, cmd.rs)                                                   *)
(***************************************************************************)
\* Most operations made on the pair of connections after new.
MaxPairOps == 2

\* tokio parse_line: reader.read_line(&mut raw).await?, the last character
\* cut off, the line split into words.
tokio_parse_line(wire, closed) ==
    IF wire = <<>>
    THEN [res |-> IF closed THEN Panicked ELSE Blocked, rest |-> wire]
    ELSE LET raw == Head(wire)
             args == ShellSplit(SubSeq(raw, 1, Len(raw) - 1))
         IN  [res |-> IF args.ok THEN Ok(args.words)
                      ELSE ErrGeneric(Msg.parse_failed),
              rest |-> Tail(wire)]

\* tokio read_response
tokio_read_response(wire, closed) == ResponseOf(tokio_parse_line(wire, closed))

\* tokio read_plain_response
tokio_read_plain_response(wire, closed) ==
    LET line == tokio_parse_line(wire, closed)
    IN  [res |-> IF line.res.kind = "Ok"
                 THEN Ok(<<Item("String", "", <<JoinBlank(line.res.val)>>, 0)>>)
                 ELSE line.res,
         rest |-> line.rest]

\* tokio read_list: BEGIN LIST with the query, then the loop any END LIST
\* breaks.
RECURSIVE TokioReadListLoop(_, _, _)
TokioReadListStep(r, closed, lines) ==
    IF r.res.kind # "Ok" THEN r
    ELSE IF r.res.val[1].type = "EndList" THEN [res |-> Ok(lines), rest |-> r.rest]
    ELSE TokioReadListLoop(r.rest, closed, Append(lines, r.res.val[1]))

TokioReadListLoop(wire, closed, lines) ==
    TokioReadListStep(tokio_read_response(wire, closed), closed, lines)

TokioReadListBegin(first, closed, query) ==
    IF first.res.kind # "Ok" THEN first
    ELSE IF expect_begin_list(first.res.val[1], query).kind # "Ok"
    THEN [res |-> expect_begin_list(first.res.val[1], query), rest |-> first.rest]
    ELSE TokioReadListLoop(first.rest, closed, <<>>)

tokio_read_list(wire, closed, query) ==
    TokioReadListBegin(tokio_read_response(wire, closed), closed, query)

\* The async body of each macro of cmd.rs, after its write_cmd.
TokioAnswer(op, wire, closed) ==
    CASE op.family = "list" ->
           LET l == tokio_read_list(wire, closed, op.query)
           IN  [res |-> IF l.res.kind = "Ok" THEN MapCollect(op.type, l.res.val, <<>>)
                        ELSE l.res,
                rest |-> l.rest]
      [] op.family = "get" ->
           LET r == tokio_read_response(wire, closed)
           IN  [res |-> IF r.res.kind = "Ok" THEN Expect(op.type, r.res.val[1])
                        ELSE r.res,
                rest |-> r.rest]
      [] op.family = "simple" -> tokio_read_plain_response(wire, closed)
      [] op.family = "action" ->
           LET r == tokio_read_response(wire, closed)
           IN  [res |-> IF r.res.kind # "Ok" THEN r.res
                        ELSE IF expect_ok(r.res.val[1]).kind = "Ok" THEN Ok(<<>>)
                        ELSE expect_ok(r.res.val[1]),
                rest |-> r.rest]

\* tokio enable_ssl from the response to STARTTLS to the end of expect_ok.
TokioStartTlsAnswer(wire, closed) ==
    LET r == tokio_read_response(wire, closed)
        mapped == MapStartTlsError(r.res)
    IN  [res |-> IF mapped.kind # "Ok" THEN mapped
                 ELSE IF expect_ok(mapped.val[1]).kind = "Ok" THEN Ok(<<>>)
                 ELSE expect_ok(mapped.val[1]),
         rest |-> r.rest]

Surfaces == {"blocking", "tokio"}

SurfaceAnswer(s, op, wire, closed) ==
    IF s = "blocking" THEN Answer(op, wire, closed) ELSE TokioAnswer(op, wire, closed)

SurfaceStartTls(s, wire, closed) ==
    IF s = "blocking" THEN StartTlsAnswer("Connection", wire, closed)
    ELSE TokioStartTlsAnswer(wire, closed)

\* The feature that compiles the TLS body of enable_ssl on each surface.
SslFeature(s, build) == IF s = "blocking" THEN build.ssl ELSE build.async_ssl

\* What the server answers STARTTLS and NETVER with.
PairStartTlsReplies == {OpenLine.ok_starttls, ErrLine(FromArgsCodes[3].code)}

\* What the server sends in reply to a request after the opening.
PairScripts ==
    {Reply(<<Line.ok>>, FALSE),
     Reply(<<Line.var>>, FALSE),
     Reply(<<Line.netver>>, FALSE),
     Reply(<<ErrLine(StrUsernameRequired)>>, FALSE),
     Reply(<<Line.begin_ups, Line.ups, Line.end_ups>>, FALSE),
     Reply(<<Line.begin_var, Line.var, Line.end_ups>>, FALSE),
     Reply(<<Line.ok_cut>>, TRUE),
     Reply(<<>>, TRUE)}

\* One connection of the pair: where it is, the lines received and not
\* read, whether its stream is wrapped, the lines the last call wrote, how
\* many lines it read, and its result.
Side(pc, wire, tls, written, reads, res) ==
    [pc |-> pc, wire |-> wire, tls |-> tls, written |-> written,
     reads |-> reads, res |-> res]

SideIdle == Side("idle", <<>>, FALSE, <<>>, 0, Ok(<<>>))

SideAfter(res) ==
    CASE res.kind = "Panic" -> "aborted"
      [] res.kind = "Blocked" -> "blocked"
      [] res.kind = "Err" -> "failed"
      [] OTHER -> "open"

\* Connection::new with no credentials: TcpConnection::new with its
\* enable_ssl, then get_network_version; a is what enable_ssl's exchange
\* came to and n what the read_plain_response of get_network_version did.
SideNew(s, build, ssl, a, n) ==
    IF SslFeature(s, build) /\ ssl /\ a.res.kind # "Ok"
    THEN Side("failed", <<>>, FALSE, <<RequestLine(OpStartTls)>>, 1, a.res)
    ELSE Side(SideAfter(n.res), <<>>, SslFeature(s, build) /\ ssl,
              (IF SslFeature(s, build) /\ ssl THEN <<RequestLine(OpStartTls)>> ELSE <<>>)
                  \o <<RequestLine(OpGetNetworkVersion)>>,
              (IF SslFeature(s, build) /\ ssl THEN 2 ELSE 1),
              IF n.res.kind = "Ok" THEN Ok(<<>>) ELSE n.res)

\* One operation on one connection: write_cmd, then the reads of its macro
\* over the lines before it, which came to a; k of the lines left unread
\* were in the reader dropped at return.
SideCall(side, op, before, a, k) ==
    Side(CASE a.res.kind = "Panic" -> "aborted"
           [] a.res.kind = "Blocked" -> "blocked"
           [] OTHER -> "open",
         SubSeq(a.rest, k + 1, Len(a.rest)),
         side.tls,
         <<RequestLine(op)>>,
         Len(before) - Len(a.rest),
         a.res)

PairIdle ==
    /\ pr_pc = "idle"
    /\ pr_build = [ssl |-> FALSE, async_ssl |-> FALSE]
    /\ pr_ssl = FALSE
    /\ pr_side = ("blocking" :> SideIdle) @@ ("tokio" :> SideIdle)
    /\ pr_op = NoOp
    /\ pr_ops = 0

\* A build of the crate, a configuration, and no connection made yet.
PairInit ==
    /\ pr_pc = "new"
    /\ pr_build \in [ssl : BOOLEAN, async_ssl : BOOLEAN]
    /\ pr_ssl \in BOOLEAN
    /\ pr_side = ("blocking" :> SideIdle) @@ ("tokio" :> SideIdle)
    /\ pr_op = NoOp
    /\ pr_ops = 0

\* Connection::new(&config) on both surfaces against the same server, which
\* answers each request it receives.
PairNew ==
    /\ pr_pc = "new"
    /\ \E starttls_reply \in PairStartTlsReplies :
       \E ab \in {SurfaceStartTls("blocking", <<starttls_reply>>, FALSE)} :
       \E at \in {SurfaceStartTls("tokio", <<starttls_reply>>, FALSE)} :
       \E nb \in {read_plain_response(<<Line.netver>>, FALSE)} :
       \E nt \in {tokio_read_plain_response(<<Line.netver>>, FALSE)} :
       \E b \in {SideNew("blocking", pr_build, pr_ssl, ab, nb)} :
       \E t \in {SideNew("tokio", pr_build, pr_ssl, at, nt)} :
          /\ pr_side' = ("blocking" :> b) @@ ("tokio" :> t)
          /\ pr_pc' = IF b.pc = "open" /\ t.pc = "open" THEN "open" ELSE "apart"
    /\ pr_op' = Op("new", "new", "none", <<>>, "none")
    /\ UNCHANGED <<pr_build, pr_ssl, pr_ops>>
    /\ UNCHANGED notPair

\* The operations made on the pair: one of each macro of cmd.rs.
PairOps ==
    {OpListUps, OpGetVar(Names.nutdev, Names.a), OpSetUsername(Names.user),
     OpGetNetworkVersion}

\* The same operation on both connections, the server sending the same
\* lines to both and the same number of them held by the readers dropped.
PairCall ==
    /\ pr_pc = "open"
    /\ pr_ops < MaxPairOps
    /\ \E op \in PairOps :
       \E script \in PairScripts :
       \E wb \in {pr_side["blocking"].wire \o script.lines} :
       \E wt \in {pr_side["tokio"].wire \o script.lines} :
       \E ab \in {SurfaceAnswer("blocking", op, wb, script.close)} :
       \E at \in {SurfaceAnswer("tokio", op, wt, script.close)} :
       \E k \in 0..2 :
       \E b \in {SideCall(pr_side["blocking"], op, wb, ab, k)} :
       \E t \in {SideCall(pr_side["tokio"], op, wt, at, k)} :
          /\ pr_side' = ("blocking" :> b) @@ ("tokio" :> t)
          /\ pr_pc' = IF b.pc = "open" /\ t.pc = "open" THEN "open" ELSE "apart"
          /\ pr_op' = op
    /\ pr_ops' = pr_ops + 1
    /\ UNCHANGED <<pr_build, pr_ssl>>
    /\ UNCHANGED notPair

PairNext ==
    \/ PairNew
    \/ PairCall

\* The two connections did the same: the same request lines, as many
\* response lines read, the same value or an error of the same kind.
SameOutcome ==
    /\ pr_side["blocking"].written = pr_side["tokio"].written
    /\ pr_side["blocking"].reads = pr_side["tokio"].reads
    /\ pr_side["blocking"].res = pr_side["tokio"].res

\* C26: for the same configuration and the same server lines every
\* operation of the blocking Connection and the operation of the same name
\* of the tokio Connection write the same request lines in the same order,
\* read the same number of response lines and return the same value or an
\* error of the same kind.
C26_Equivalent == pr_op # NoOp => SameOutcome

\* C26, the case found: built with ssl and without async-ssl, new with ssl
\* set wrote STARTTLS and NETVER and wrapped the stream on the blocking
\* surface, and wrote NETVER alone on a plain stream on the tokio surface.
C26_Diverges ==
    /\ pr_op.name = "new"
    /\ pr_ssl /\ pr_build.ssl /\ ~pr_build.async_ssl
    /\ pr_side["blocking"].written = <<RequestLine(OpStartTls), RequestLine(OpGetNetworkVersion)>>
    /\ pr_side["blocking"].tls
    /\ pr_side["tokio"].written = <<RequestLine(OpGetNetworkVersion)>>
    /\ ~pr_side["tokio"].tls
    /\ pr_side["tokio"].res.kind = "Ok"

\* C26, the part that holds: with the two features alike in the build, or
\* ssl not set, new does the same on both surfaces, and after it every
\* operation does.
C26_SameFeatures ==
    (pr_op # NoOp /\ (pr_build.ssl = pr_build.async_ssl \/ ~pr_ssl)) =>
        /\ SameOutcome
        /\ pr_side["blocking"].wire = pr_side["tokio"].wire
        /\ pr_side["blocking"].tls = pr_side["tokio"].tls

(***************************************************************************)
(* UpsdName: [<upsname>][@<hostname>][:<port>] (util.rs)                   *)
(***************************************************************************)
DEFAULT_HOSTNAME == <<"l", "o", "c", "a", "l", "h", "o", "s", "t">>

DEFAULT_PORT == 3493

\* The largest u16.
MaxU16 == 65535

\* Longest name drawn character by character.
MaxHostLen == 4

HostAlphabet == {"u", "h", "@", ":", "7", "+"}

\* The names of the tests of util.rs, ports at the edge of u16 and names
\* with a component left empty.
HostExamples ==
    {<<"u", "p", "s", "@", "n", "o", "t", "l", "o", "c", "a", "l", ":",
       "1", "2", "3", "4">>,
     <<"n", "o", "t", "l", "o", "c", "a", "l", ":", "5", "6", "7", "8">>,
     <<"u", "p", "s", "0">>,
     <<"u", "p", "s", "@", "n", "o", "t", "l", "o", "c", "a", "l">>,
     <<"h", ":", "6", "5", "5", "3", "5">>,
     <<"h", ":", "6", "5", "5", "3", "6">>,
     <<"h", ":", "0", "7", "7">>,
     <<"u", "@", "h", ":", "x">>,
     <<"a", "@", "b", "@", "c", ":", "1">>}

HostInputs == StrsUpTo(HostAlphabet, MaxHostLen) \cup HostExamples

\* str::contains(c)
Contains(s, c) == \E i \in 1..Len(s) : s[i] = c

\* str::splitn(2, c) of a string that contains c: what is before the first
\* c and what is after it.
Splitn2(s, c) ==
    LET i == CHOOSE k \in 1..Len(s) : s[k] = c /\ \A j \in 1..(k - 1) : s[j] # c
    IN  <<SubSeq(s, 1, i - 1), SubSeq(s, i + 1, Len(s))>>

\* str::parse::<u16>: an optional +, at least one digit, nothing else, the
\* value at most 65535.
ParseU16(s) ==
    LET ds == IF s # <<>> /\ s[1] = "+" THEN Tail(s) ELSE s
        wellFormed == ds # <<>> /\ \A i \in 1..Len(ds) : ds[i] \in DOMAIN DigitValue
        canon == StripZeros(ds)
        fits == Len(canon) <= 5 /\ DigitsValue(canon) <= MaxU16
    IN  IF wellFormed /\ fits THEN [ok |-> TRUE, num |-> DigitsValue(canon)]
        ELSE [ok |-> FALSE, num |-> 0]

\* A number as Display writes it.
RECURSIVE ToDigits(_)
ToDigits(n) ==
    LET d == CHOOSE c \in DOMAIN DigitValue : DigitValue[c] = n % 10
    IN  IF n < 10 THEN <<d>> ELSE Append(ToDigits(n \div 10), d)

\* A UpsdName; upsname is <<>> for None and <<u>> for Some(u).
UpsdName(upsname, hostname, port) ==
    [upsname |-> upsname, hostname |-> hostname, port |-> port]

\* TryFrom<&str> for UpsdName
UpsdName_try_from(value) ==
    IF Contains(value, ":")
    THEN LET split == Splitn2(value, ":")
             prefix == split[1]
             port == ParseU16(split[2])
         IN  IF ~port.ok THEN ErrGeneric(<<"I", "n", "v", "a", "l", "i",
                                           "d", SP, "p", "o", "r", "t",
                                           SP, "n", "u", "m", "b", "e",
                                           "r">>)
             ELSE IF Contains(prefix, "@")
             THEN Ok(<<UpsdName(<<Splitn2(prefix, "@")[1]>>,
                                Splitn2(prefix, "@")[2], port.num)>>)
             ELSE Ok(<<UpsdName(<<>>, prefix, port.num)>>)
    ELSE IF Contains(value, "@")
    THEN Ok(<<UpsdName(<<Splitn2(value, "@")[1]>>, Splitn2(value, "@")[2],
                       DEFAULT_PORT)>>)
    ELSE Ok(<<UpsdName(<<value>>, DEFAULT_HOSTNAME, DEFAULT_PORT)>>)

\* Display for UpsdName
UpsdName_fmt(name) ==
    (IF name.upsname # <<>> THEN name.upsname[1] \o <<"@">> ELSE <<>>)
        \o name.hostname \o <<":">> \o ToDigits(name.port)

HostIdle ==
    /\ hs_pc = "idle"
    /\ hs_in = <<>>
    /\ hs_res = Ok(<<>>)
    /\ hs_shown = <<>>
    /\ hs_back = Ok(<<>>)

HostInit ==
    /\ hs_pc = "given"
    /\ hs_in \in HostInputs
    /\ hs_res = Ok(<<>>)
    /\ hs_shown = <<>>
    /\ hs_back = Ok(<<>>)

\* UpsdName::try_from(value)
HostParse ==
    /\ hs_pc = "given"
    /\ hs_res' = UpsdName_try_from(hs_in)
    /\ hs_pc' = "parsed"
    /\ UNCHANGED <<hs_in, hs_shown, hs_back>>
    /\ UNCHANGED notHost

\* format!("{}", name)
HostDisplay ==
    /\ hs_pc = "parsed"
    /\ hs_res.kind = "Ok"
    /\ hs_shown' = UpsdName_fmt(hs_res.val[1])
    /\ hs_pc' = "shown"
    /\ UNCHANGED <<hs_in, hs_res, hs_back>>
    /\ UNCHANGED notHost

\* UpsdName::try_from of what was displayed
HostReparse ==
    /\ hs_pc = "shown"
    /\ hs_back' = UpsdName_try_from(hs_shown)
    /\ hs_pc' = "back"
    /\ UNCHANGED <<hs_in, hs_res, hs_shown>>
    /\ UNCHANGED notHost

HostNext == HostParse \/ HostDisplay \/ HostReparse

\* The components of a name as the four shapes u@h:p, h:p, u@h, u place
\* them: the port after the first colon, the hostname after the first @ of
\* what is before the colon, or all of it when a colon follows and no @ is
\* there.
PortText(value) == IF Contains(value, ":") THEN Splitn2(value, ":")[2] ELSE <<>>

BeforePort(value) == IF Contains(value, ":") THEN Splitn2(value, ":")[1] ELSE value

HostText(value) ==
    IF Contains(BeforePort(value), "@") THEN Splitn2(BeforePort(value), "@")[2]
    ELSE IF Contains(value, ":") THEN BeforePort(value)
    ELSE <<>>

\* A decimal integer of 0..65535.
IsPort(text) ==
    \E ds \in {IF text # <<>> /\ text[1] = "+" THEN Tail(text) ELSE text} :
       /\ ds # <<>>
       /\ \A i \in 1..Len(ds) : ds[i] \in DOMAIN DigitValue
       /\ \/ Len(StripZeros(ds)) < 5
          \/ /\ Len(StripZeros(ds)) = 5
             /\ DigitsLeq(StripZeros(ds), ToDigits(MaxU16))

Parsed == hs_pc \in {"parsed", "shown", "back"}

\* The four shapes, the default port, the refusal of a bad port and the
\* round trip through Display.
HostShapes ==
    /\ hs_in = <<"u", "p", "s", "@", "n", "o", "t", "l", "o", "c", "a",
                 "l", ":", "1", "2", "3", "4">> =>
          hs_res = Ok(<<UpsdName(<<<<"u", "p", "s">>>>, <<"n", "o", "t", "l", "o",
                                                 "c", "a", "l">>, 1234)>>)
    /\ hs_in = <<"n", "o", "t", "l", "o", "c", "a", "l", ":", "5", "6",
                 "7", "8">> =>
          hs_res = Ok(<<UpsdName(<<>>, <<"n", "o", "t", "l", "o", "c",
                                         "a", "l">>, 5678)>>)
    /\ hs_in = <<"u", "p", "s", "@", "n", "o", "t", "l", "o", "c", "a",
                 "l">> =>
          hs_res = Ok(<<UpsdName(<<<<"u", "p", "s">>>>, <<"n", "o", "t", "l", "o",
                                                 "c", "a", "l">>, 3493)>>)
    /\ hs_in = <<"u", "p", "s", "0">> =>
          hs_res = Ok(<<UpsdName(<<<<"u", "p", "s", "0">>>>, <<"l", "o", "c", "a",
                                                  "l", "h", "o", "s",
                                                  "t">>, 3493)>>)
    /\ (~Contains(hs_in, ":") /\ hs_res.kind = "Ok") => hs_res.val[1].port = 3493
    /\ (Contains(hs_in, ":") /\ ~IsPort(PortText(hs_in))) => hs_res.kind = "Err"
    /\ hs_pc = "back" => hs_back = hs_res

\* C27: u@h:p gives (Some u, h, p), h:p gives (None, h, p), u@h gives
\* (Some u, h, 3493) and u gives (Some u, localhost, 3493); with no hostname
\* the hostname is localhost and with no port the port is 3493; a port that
\* is not an integer of 0..65535 is an error; a parsed name displayed and
\* parsed again is the same name.
C27_UpsdName ==
    Parsed =>
        /\ HostShapes
        /\ (HostText(hs_in) = <<>> /\ hs_res.kind = "Ok") =>
              hs_res.val[1].hostname = DEFAULT_HOSTNAME

\* C27, the case found: :7 has a port and no hostname and is parsed with
\* the empty hostname.
C27_Diverges ==
    /\ Parsed
    /\ hs_in = <<":", "7">>
    /\ hs_res = Ok(<<UpsdName(<<>>, <<>>, 7)>>)

\* C27, the part that holds: the four shapes, localhost for a name with
\* neither a colon nor an @, 3493 with no port, an error for a bad port,
\* and the round trip.
C27_Shapes ==
    Parsed =>
        /\ HostShapes
        /\ (~Contains(hs_in, ":") /\ ~Contains(hs_in, "@")) =>
              (hs_res.kind = "Ok" /\ hs_res.val[1].hostname = DEFAULT_HOSTNAME)

\* C28: parsing fails when none of upsname, hostname and port is present:
\* the empty string is refused with an error.
C28_EmptyRefused ==
    (Parsed /\ hs_in = <<>>) => hs_res.kind = "Err"

\* C28, the case found: the empty string is parsed as the UPS of the empty
\* name at localhost:3493.
C28_Diverges ==
    /\ Parsed
    /\ hs_in = <<>>
    /\ hs_res = Ok(<<UpsdName(<<<<>>>>, DEFAULT_HOSTNAME, DEFAULT_PORT)>>)

\* C28, the part that holds: parsing fails only on the port, with a
\* generic error.
C28_OnlyPortFails ==
    (Parsed /\ hs_res.kind = "Err") =>
        /\ Contains(hs_in, ":")
        /\ ~IsPort(PortText(hs_in))
        /\ hs_res = ErrGeneric(<<"I", "n", "v", "a", "l", "i", "d", SP,
                                 "p", "o", "r", "t", SP, "n", "u", "m",
                                 "b", "e", "r">>)

(***************************************************************************)
(* Variable definitions and variables (var.rs): VariableType::try_from,    *)
(* VariableDefinition, Variable::parse and Variable::name                  *)
(***************************************************************************)
\* Most tags of one definition.
MaxTags == 2

TagText ==
    [rw |-> <<"R", "W">>, enum |-> <<"E", "N", "U", "M">>, range |-> <<"R", "A", "N", "G",
                                                     "E">>,
     number |-> <<"N", "U", "M", "B", "E", "R">>, string123 |-> <<"S", "T", "R", "I", "N",
                                             "G", ":", "1", "2", "3">>,
     string7 |-> <<"S", "T", "R", "I", "N", "G", ":", "7">>, string0 |-> <<"S", "T", "R", "I", "N",
                                              "G", ":", "0">>,
     string_none |-> <<"S", "T", "R", "I", "N", "G", ":">>, string_x |-> <<"S", "T", "R", "I",
                                                  "N", "G", ":", "x">>,
     foo |-> <<"F", "O", "O">>, lower |-> <<"r", "w">>]

Tags == {TagText[k] : k \in DOMAIN TagText}

TagLists == StrsUpTo(Tags, MaxTags)

\* A VariableType; n is the size of a String, as its digits, and <<>> for
\* the others.
VariableType(t, n) == [t |-> t, n |-> n]

\* TryFrom<&str> for VariableType, the size read as any usize.
VariableType_try_from(value) ==
    CASE value = TagText.rw -> Ok(<<VariableType("Rw", <<>>)>>)
      [] value = TagText.enum -> Ok(<<VariableType("Enum", <<>>)>>)
      [] value = TagText.range -> Ok(<<VariableType("Range", <<>>)>>)
      [] value = TagText.number -> Ok(<<VariableType("Number", <<>>)>>)
      [] OTHER ->
           IF StartsWith(value, <<"S", "T", "R", "I", "N", "G", ":">>)
           THEN LET size == ParseU64(Splitn2(value, ":")[2])
                IN  IF size.ok THEN Ok(<<VariableType("String", size.digits)>>)
                    ELSE ErrGeneric(<<"I", "n", "v", "a", "l", "i", "d",
                                      SP, "S", "T", "R", "I", "N", "G",
                                      SP, "d", "e", "f", "i", "n", "i",
                                      "t", "i", "o", "n">>)
           ELSE ErrGeneric(<<"U", "n", "r", "e", "c", "o", "g", "n", "i",
                             "z", "e", "d", SP, "v", "a", "r", "i", "a",
                             "b", "l", "e", SP, "t", "y", "p", "e", ":",
                             SP>> \o value)

\* collect::<Result<HashSet<_>>>: the set of the types, or the first error.
RECURSIVE CollectTypes(_, _)
CollectTypes(tags, acc) ==
    IF tags = <<>> THEN Ok(<<acc>>)
    ELSE LET t == VariableType_try_from(Head(tags))
         IN  IF t.kind # "Ok" THEN t
             ELSE CollectTypes(Tail(tags), acc \cup {t.val[1]})

\* TryFrom<(A, Vec<&str>)> for VariableDefinition
VariableDefinition_try_from(name, tags) ==
    LET types == CollectTypes(tags, {})
    IN  IF types.kind # "Ok" THEN types
        ELSE Ok(<<[name |-> name, types |-> types.val[1]]>>)

is_mutable(def) == VariableType("Rw", <<>>) \in def.types

is_enum(def) == VariableType("Enum", <<>>) \in def.types

is_string(def) == \E t \in def.types : t.t = "String"

is_range(def) == VariableType("Range", <<>>) \in def.types

is_number(def) == VariableType("Number", <<>>) \in def.types

\* get_string_length: the size of the first String type the iteration of
\* the HashSet meets, which may be any of them; <<>> is None.
StringLengths(def) ==
    IF is_string(def) THEN {<<t.n>> : t \in {u \in def.types : u.t = "String"}}
    ELSE {<<>>}

\* Variable::name
Variable_name(var) ==
    IF var.tag = "Other" THEN var.strs[1]
    ELSE VariableKeys[CHOOSE i \in 1..Len(VariableKeys) :
                         VariableKeys[i].variant = var.tag].key

\* The names and the values given to Variable::parse: the ten keys and a
\* name that is none of them; device types, numbers and other words.
VarNames == {VariableKeys[i].key : i \in 1..Len(VariableKeys)} \cup {<<
                                                                       "u",
                                                                       "p",
                                                                       "s",
                                                                       ".",
                                                                       "s",
                                                                       "t",
                                                                       "a",
                                                                       "t",
                                                                       "u",
                                                                       "s">>}

VarValues ==
    {<<"u", "p", "s">>, <<"p", "d", "u">>, <<"s", "c", "d">>, <<"p", "s", "u">>, <<"a", "t", "s">>, <<"U", "P", "S">>, <<"3",
                                                                   "6",
                                                                   "0",
                                                                   "0">>,
     <<"0">>, <<"s", "o", "o", "n">>, <<"-", "1">>, <<>>}

NoDefinition == [name |-> <<>>, types |-> {}]

NoVariable == Item("none", "", <<>>, 0)

VarsIdle ==
    /\ vd_pc = "idle"
    /\ vd_name = <<>>
    /\ vd_tags = <<>>
    /\ vd_value = <<>>
    /\ vd_def = Ok(<<NoDefinition>>)
    /\ vd_len = <<>>
    /\ vd_var = Ok(<<NoVariable>>)
    /\ vd_shown = <<>>

\* Either a name and its tags, for a definition, or a name and a value, for
\* a variable.
VarsInit ==
    /\ \/ /\ vd_pc = "tags"
          /\ vd_name = <<"v", "a", "r">>
          /\ vd_tags \in TagLists
          /\ vd_value = <<>>
       \/ /\ vd_pc = "value"
          /\ vd_name \in VarNames
          /\ vd_tags = <<>>
          /\ vd_value \in VarValues
    /\ vd_def = Ok(<<NoDefinition>>)
    /\ vd_len = <<>>
    /\ vd_var = Ok(<<NoVariable>>)
    /\ vd_shown = <<>>

\* VariableDefinition::try_from((name, tags))
VarsTryFrom ==
    /\ vd_pc = "tags"
    /\ vd_def' = VariableDefinition_try_from(vd_name, vd_tags)
    /\ vd_pc' = "defined"
    /\ UNCHANGED <<vd_name, vd_tags, vd_value, vd_len, vd_var, vd_shown>>
    /\ UNCHANGED notVars

\* get_string_length() of the definition
VarsStringLength ==
    /\ vd_pc = "defined"
    /\ vd_def.kind = "Ok"
    /\ vd_len' \in StringLengths(vd_def.val[1])
    /\ vd_pc' = "measured"
    /\ UNCHANGED <<vd_name, vd_tags, vd_value, vd_def, vd_var, vd_shown>>
    /\ UNCHANGED notVars

\* Variable::parse(name, value)
VarsParse ==
    /\ vd_pc = "value"
    /\ vd_var' = Variable_parse(vd_name, vd_value)
    /\ vd_pc' = IF vd_var'.kind = "Panic" THEN "aborted" ELSE "parsed"
    /\ UNCHANGED <<vd_name, vd_tags, vd_value, vd_def, vd_len, vd_shown>>
    /\ UNCHANGED notVars

\* name() of the variable
VarsName ==
    /\ vd_pc = "parsed"
    /\ vd_shown' = Variable_name(vd_var.val[1])
    /\ vd_pc' = "named"
    /\ UNCHANGED <<vd_name, vd_tags, vd_value, vd_def, vd_len, vd_var>>
    /\ UNCHANGED notVars

VarsNext == VarsTryFrom \/ VarsStringLength \/ VarsParse \/ VarsName

Defined == vd_pc \in {"defined", "measured"}

\* The digits of a decimal integer.
IsNumber(ds) == ds # <<>> /\ \A i \in 1..Len(ds) : ds[i] \in DOMAIN DigitValue

\* A tag of the list RW, ENUM, RANGE, NUMBER, STRING:<n>, n an integer of
\* at least least.
IsTag(tag, least) ==
    \/ tag \in {TagText.rw, TagText.enum, TagText.range, TagText.number}
    \/ /\ StartsWith(tag, <<"S", "T", "R", "I", "N", "G", ":">>)
       /\ \E ds \in {SubSeq(tag, 8, Len(tag))} :
             /\ IsNumber(ds)
             /\ \E i \in 1..Len(ds) : DigitValue[ds[i]] >= least

\* A definition parses when every tag is one of the list, with the same
\* result for the same set of tags in any order; RW with STRING:123 is a
\* mutable string of length 123 and nothing else; a failure is a protocol
\* error.
DefinitionLaw(least) ==
    /\ vd_def.kind = "Ok" <=> \A i \in 1..Len(vd_tags) : IsTag(vd_tags[i], least)
    /\ vd_def.kind = "Ok" =>
          \A other \in TagLists :
             {other[i] : i \in 1..Len(other)} = {vd_tags[i] : i \in 1..Len(vd_tags)}
                => VariableDefinition_try_from(vd_name, other) = vd_def
    /\ {vd_tags[i] : i \in 1..Len(vd_tags)} = {TagText.rw, TagText.string123} =>
          /\ vd_def.kind = "Ok"
          /\ \A def \in {vd_def.val[1]} :
                /\ is_mutable(def) /\ is_string(def)
                /\ ~is_enum(def) /\ ~is_number(def) /\ ~is_range(def)
                /\ StringLengths(def) = {<<<<"1", "2", "3">>>>}
    /\ vd_def.kind # "Ok" => IsProtocolError(vd_def)

\* C29: VariableDefinition::try_from(name, tags) succeeds iff every tag is
\* RW, ENUM, RANGE, NUMBER or STRING:<n> with n a positive integer; its
\* result depends only on the set of tags; (var, [RW, STRING:123]) is
\* mutable, a string of length 123, and not an enum, a number or a range;
\* any other tag makes the parse fail with a protocol error.
C29_Definition == Defined => DefinitionLaw(1)

\* C29, the case found: the tag STRING:0 is parsed as a string of length 0.
C29_Diverges ==
    /\ vd_pc = "measured"
    /\ vd_tags = <<TagText.string0>>
    /\ vd_def.kind = "Ok"
    /\ is_string(vd_def.val[1])
    /\ vd_len = <<<<"0">>>>

\* C29, the part that holds: the same with STRING:<n> for any n of usize,
\* zero included.
C29_AnySize == Defined => DefinitionLaw(0)

Returned10 == vd_pc \in {"parsed", "named", "aborted"}

\* The variant Variable::parse is to return for a name and a value.
ExpectedVariable(name, value) ==
    LET hits == {i \in 1..Len(VariableKeys) : VariableKeys[i].key = name}
        variant == VariableKeys[CHOOSE i \in hits : TRUE].variant
    IN  IF hits = {} THEN Item("Other", "", <<name, value>>, 0)
        ELSE IF variant = "DeviceType"
        THEN CASE value = <<"u", "p", "s">> -> Item(variant, "Ups", <<>>, 0)
               [] value = <<"p", "d", "u">> -> Item(variant, "Pdu", <<>>, 0)
               [] value = <<"s", "c", "d">> -> Item(variant, "Scd", <<>>, 0)
               [] value = <<"p", "s", "u">> -> Item(variant, "Psu", <<>>, 0)
               [] value = <<"a", "t", "s">> -> Item(variant, "Ats", <<>>, 0)
               [] OTHER -> Item(variant, "Other", <<value>>, 0)
        ELSE IF variant = "DeviceUptime"
        THEN Item(variant, "secs", <<StripZeros(value)>>, 0)
        ELSE Item(variant, "", <<value>>, 0)

\* C30: Variable::parse(name, value) returns the typed variant for each of
\* the ten well-known names (device.type: ups, pdu, scd, psu, ats to their
\* variants, any other value to Other(raw); device.uptime 3600 to 3600
\* seconds) and Other((name, value)) for every other name, and name()
\* returns the given name.
C30_Parse ==
    /\ Returned10 =>
          /\ vd_var.kind = "Ok"
          /\ vd_var.val[1].tag \in
                {VariableKeys[i].variant : i \in 1..Len(VariableKeys)} \cup {"Other"}
          /\ (vd_name # Names.uptime \/ IsNumber(vd_value)) =>
                vd_var.val[1] = ExpectedVariable(vd_name, vd_value)
    /\ vd_pc = "named" => vd_shown = vd_name

\* C30, the case found: Variable::parse(device.uptime, soon) has aborted
\* the caller and returned no variable.
C30_Diverges ==
    /\ vd_pc = "aborted"
    /\ vd_name = Names.uptime
    /\ vd_value = <<"s", "o", "o", "n">>
    /\ vd_var = Panicked

\* C30, the part that holds: but for an uptime that is not a number, the
\* variant is the one of the name, and name() returns the given name.
C30_ButUptime ==
    /\ (Returned10 /\ (vd_name # Names.uptime \/ IsNumber(vd_value))) =>
          /\ vd_var.kind = "Ok"
          /\ vd_var.val[1] = ExpectedVariable(vd_name, vd_value)
    /\ vd_pc = "named" => vd_shown = vd_name
    /\ (vd_pc = "named" /\ vd_name = Names.uptime /\ vd_value = <<"3",
                                                                  "6",
                                                                  "0",
                                                                  "0">>) =>
          vd_var.val[1] = Item("DeviceUptime", "secs", <<<<"3", "6", "0",
                                                           "0">>>>, 0)

(***************************************************************************)
(* The layers of a ConnectionStream: buffered, unbuffered, and the reads    *)
(* through a BufReader (blocking/stream.rs, tokio/stream.rs)                *)
(*                                                                         *)
(* A byte of the stream is its position in what the server sent; a stream  *)
(* is the list of the buffers of its Buffered layers, the outermost first, *)
(* over a Tcp stream, so <<>> is Tcp(..) and <<b>> is Buffered(Tcp) with b  *)
(* read ahead.  Reads ask for fewer bytes than a buffer holds.             *)
(***************************************************************************)
\* The bytes the server sends before it closes.
MaxStream == 5

\* Most Buffered layers on one stream.
MaxLayers == 2

\* Most calls made on one stream.
MaxBufOps == 4

\* The size of the buffer of BufReader::new.
BufCapacity == 8192

\* Where the line ends of the stream are.
NewLines == {{2}, {2, 4}, {3, 5}}

Least(a, b) == IF a <= b THEN a ELSE b

Positions(bytes) == {bytes[i] : i \in 1..Len(bytes)}

\* TcpStream::read: at most n bytes of those that arrived, k of them at a
\* time; nothing at the end of the stream.
TcpRead(net, n, k) ==
    [bytes |-> SubSeq(net, 1, Least(Least(n, k), Len(net))),
     bufs |-> <<>>,
     net |-> SubSeq(net, Least(Least(n, k), Len(net)) + 1, Len(net))]

\* Read::read and AsyncRead::poll_read of ConnectionStream.  Blocking, a
\* Buffered stream reads through its reader: the bytes it holds first, and
\* when it holds none the reader fills itself from the stream inside.  On
\* tokio a Buffered stream reads from reader.get_mut(), the stream inside.
RECURSIVE ConnectionStream_read(_, _, _, _, _)
ConnectionStream_read(api, bufs, net, n, k) ==
    IF bufs = <<>> THEN TcpRead(net, n, k)
    ELSE IF api = "tokio"
    THEN LET r == ConnectionStream_read(api, Tail(bufs), net, n, k)
         IN  [bytes |-> r.bytes, bufs |-> <<Head(bufs)>> \o r.bufs, net |-> r.net]
    ELSE IF Head(bufs) # <<>>
    THEN [bytes |-> SubSeq(Head(bufs), 1, Least(n, Len(Head(bufs)))),
          bufs |-> <<SubSeq(Head(bufs), Least(n, Len(Head(bufs))) + 1, Len(Head(bufs)))>>
                       \o Tail(bufs),
          net |-> net]
    ELSE LET r == ConnectionStream_read(api, Tail(bufs), net, BufCapacity, k)
         IN  [bytes |-> SubSeq(r.bytes, 1, Least(n, Len(r.bytes))),
              bufs |-> <<SubSeq(r.bytes, Least(n, Len(r.bytes)) + 1, Len(r.bytes))>>
                           \o r.bufs,
              net |-> r.net]

\* BufRead::fill_buf and AsyncBufRead::poll_fill_buf of a Buffered stream:
\* the reader's fill_buf, which reads from the stream inside when the
\* buffer is empty.
fill_buf(api, bufs, net, k) ==
    IF Head(bufs) # <<>> THEN [bufs |-> bufs, net |-> net]
    ELSE LET r == ConnectionStream_read(api, Tail(bufs), net, BufCapacity, k)
         IN  [bufs |-> <<r.bytes>> \o r.bufs, net |-> r.net]

\* The first line end among the bytes, 0 when there is none.
RECURSIVE LineEnd(_, _, _)
LineEnd(bytes, nl, i) ==
    IF i > Len(bytes) THEN 0
    ELSE IF bytes[i] \in nl THEN i
    ELSE LineEnd(bytes, nl, i + 1)

\* read_line on a Buffered stream: fill_buf and consume until a line end
\* was consumed or fill_buf gave nothing.
RECURSIVE ReadLineLoop(_, _, _, _, _, _)
ReadLineLoop(api, bufs, net, nl, k, raw) ==
    LET f == fill_buf(api, bufs, net, k)
        available == Head(f.bufs)
        used == IF LineEnd(available, nl, 1) > 0 THEN LineEnd(available, nl, 1)
                ELSE Len(available)
        left == <<SubSeq(available, used + 1, Len(available))>> \o Tail(f.bufs)
    IN  IF available = <<>>
        THEN [ok |-> TRUE, bytes |-> raw, bufs |-> f.bufs, net |-> f.net]
        ELSE IF LineEnd(available, nl, 1) > 0
        THEN [ok |-> TRUE, bytes |-> raw \o SubSeq(available, 1, used),
              bufs |-> left, net |-> f.net]
        ELSE ReadLineLoop(api, left, f.net, nl, k, raw \o available)

\* read_literal: read_line, which on a stream that is not Buffered fails
\* in fill_buf with Unsupported.
read_line(api, bufs, net, nl, k) ==
    IF bufs = <<>> THEN [ok |-> FALSE, bytes |-> <<>>, bufs |-> bufs, net |-> net]
    ELSE ReadLineLoop(api, bufs, net, nl, k, <<>>)

\* buffered(self)
buffered(bufs) == <<<<>>>> \o bufs

\* An unbuffered that hands the stream back as it is.
UnbufferedKeepsReader(bufs) == bufs

\* unbuffered(self): buf.into_inner() of a Buffered stream, self otherwise.
unbuffered(bufs) == IF bufs # <<>> THEN Tail(bufs) ELSE bufs

NoBufCall == [op |-> "none", before |-> <<>>, after |-> <<>>]

BufIdle ==
    /\ bf_pc = "idle"
    /\ bf_api = "blocking"
    /\ bf_nl = {}
    /\ bf_bufs = <<>>
    /\ bf_net = <<>>
    /\ bf_got = <<>>
    /\ bf_lost = {}
    /\ bf_last = NoBufCall
    /\ bf_prev = NoBufCall
    /\ bf_ops = 0

\* A Tcp stream on which the server's bytes have arrived.
BufInit ==
    /\ bf_pc = "open"
    /\ bf_api \in {"blocking", "tokio"}
    /\ bf_nl \in NewLines
    /\ bf_bufs = <<>>
    /\ bf_net = [i \in 1..MaxStream |-> i]
    /\ bf_got = <<>>
    /\ bf_lost = {}
    /\ bf_last = NoBufCall
    /\ bf_prev = NoBufCall
    /\ bf_ops = 0

BufCalled(op, after) ==
    /\ bf_bufs' = after
    /\ bf_last' = [op |-> op, before |-> bf_bufs, after |-> after]
    /\ bf_prev' = bf_last
    /\ bf_ops' = bf_ops + 1
    /\ UNCHANGED <<bf_pc, bf_api, bf_nl>>
    /\ UNCHANGED notBuf

\* stream = stream.buffered()
BufBuffered ==
    /\ bf_pc = "open"
    /\ bf_ops < MaxBufOps
    /\ Len(bf_bufs) < MaxLayers
    /\ BufCalled("buffered", buffered(bf_bufs))
    /\ UNCHANGED <<bf_net, bf_got, bf_lost>>

\* stream = stream.unbuffered(): the reader dropped takes with it the bytes
\* it held.
BufUnbuffered ==
    /\ bf_pc = "open"
    /\ bf_ops < MaxBufOps
    /\ \E after \in {unbuffered(bf_bufs)} :
          /\ BufCalled("unbuffered", after)
          /\ bf_lost' = bf_lost \cup
                 (IF Len(after) < Len(bf_bufs) THEN Positions(Head(bf_bufs)) ELSE {})
    /\ UNCHANGED <<bf_net, bf_got>>

\* stream.read_literal()
BufReadLine ==
    /\ bf_pc = "open"
    /\ bf_ops < MaxBufOps
    /\ \E k \in 1..MaxStream :
       \E r \in {read_line(bf_api, bf_bufs, bf_net, bf_nl, k)} :
          /\ BufCalled(IF r.ok THEN "read_line" ELSE "read_line_fails", r.bufs)
          /\ bf_net' = r.net
          /\ bf_got' = bf_got \o r.bytes
    /\ UNCHANGED bf_lost

\* stream.read(&mut buf) with a buffer of n bytes
BufRead ==
    /\ bf_pc = "open"
    /\ bf_ops < MaxBufOps
    /\ \E n \in 1..2 :
       \E k \in 1..MaxStream :
       \E r \in {ConnectionStream_read(bf_api, bf_bufs, bf_net, n, k)} :
          /\ BufCalled("read", r.bufs)
          /\ bf_net' = r.net
          /\ bf_got' = bf_got \o r.bytes
    /\ UNCHANGED bf_lost

BufNext ==
    \/ BufBuffered
    \/ BufUnbuffered
    \/ BufReadLine
    \/ BufRead

\* C31: unbuffered() on a stream that is not Buffered returns it unchanged;
\* on a Buffered stream it returns the stream inside, and every byte read
\* into the buffer and not consumed is dropped, so that no read returns it;
\* buffered() followed by unbuffered() gives back the original stream.
C31_Unbuffered ==
    /\ bf_last.op = "unbuffered" =>
          /\ bf_last.before = <<>> => bf_last.after = <<>>
          /\ bf_last.before # <<>> =>
                /\ bf_last.after = Tail(bf_last.before)
                /\ Positions(Head(bf_last.before)) \subseteq bf_lost
    /\ bf_lost \cap Positions(bf_got) = {}
    /\ (bf_last.op = "unbuffered" /\ bf_prev.op = "buffered") =>
          bf_bufs = bf_prev.before

\* C31, its case: a Buffered stream that held bytes read ahead was
\* unbuffered, and reads were made after it.
C31_Witness ==
    /\ bf_prev.op = "unbuffered"
    /\ bf_prev.before # <<>>
    /\ Head(bf_prev.before) # <<>>
    /\ bf_last.op = "read"
    /\ bf_lost # {}
    /\ bf_net = <<>>

\* C31, its other case: buffered() and then unbuffered() with no read
\* between them.
C31_WitnessBoth ==
    /\ bf_last.op = "unbuffered"
    /\ bf_prev.op = "buffered"
    /\ bf_got # <<>>

\* The bytes handed to the caller are the bytes of the stream in order, none
\* left out.
InStreamOrder == \A i \in 1..Len(bf_got) : bf_got[i] = i

\* C39: reading from a Buffered stream delivers bytes in stream order on the
\* blocking and on the tokio surface: the bytes held in the buffer come
\* before any byte read later from the stream inside, so a raw read after a
\* line read never skips or reorders bytes.
C39_InOrder == bf_lost = {} => InStreamOrder

\* C39, the case found: on the tokio surface a line was read from a
\* Buffered stream, its reader read ahead, and the raw read that followed
\* returned bytes from behind those the reader still holds.
C39_Diverges ==
    /\ bf_api = "tokio"
    /\ bf_lost = {}
    /\ bf_prev.op = "read_line"
    /\ bf_last.op = "read"
    /\ Len(bf_bufs) = 1
    /\ bf_bufs[1] # <<>>
    /\ \E i \in 1..Len(bf_got) : bf_got[i] > bf_bufs[1][1]

\* C39, the part that holds: on the blocking surface every read, of a line
\* or raw, hands over the bytes of the stream in order.
C39_BlockingInOrder ==
    (bf_lost = {} /\ bf_api = "blocking") => InStreamOrder

(***************************************************************************)
(* Writing requests: write_literal, write_sentence, write_sentences         *)
(* (blocking/stream.rs, tokio/stream.rs) and write_cmd (blocking/mod.rs,    *)
(* tokio/mod.rs) on a stream whose writes and flushes may fail              *)
(***************************************************************************)
\* Most calls made on one stream.
MaxWriteOps == 2

\* Most sentences given to one write_sentences.
MaxSentences == 2

\* Argument strings: a name, a name with a blank, a name with a line end in
\* it, the empty string.
WriteArgs == {<<"a">>, <<"b", SP, "c">>, <<"a", NL, "b">>, <<>>}

\* The sentences written: one with no argument, one with one.
WriteSentences ==
    {[name |-> "ExecLogout", fields |-> [f \in {} |-> <<>>]]}
        \cup {[name |-> "SetUsername", fields |-> [f \in {"username"} |-> a]] :
                  a \in WriteArgs}

\* The commands written: one with one argument, one with three words.
WriteCommands ==
    {[kind |-> "SetPassword", args |-> <<a>>] : a \in WriteArgs}
        \cup {[kind |-> "Get", args |-> <<Kw.VAR, a, b>>] : a, b \in WriteArgs}

\* What reached the stream: the bytes of a write_all and whether it went
\* through, or a flush.
WriteEv(ev, bytes, ok) == [ev |-> ev, bytes |-> bytes, ok |-> ok]

WriteFailed == Err(ErrIo("BrokenPipe"))

\* write_literal: the assertion, then write_all.
write_literal(literal, ok) ==
    IF literal = <<>> \/ literal[Len(literal)] # NL
    THEN [res |-> Panicked, log |-> <<>>]
    ELSE [res |-> IF ok THEN Ok(<<>>) ELSE WriteFailed,
          log |-> <<WriteEv("write", literal, ok)>>]

\* self.flush().map_err(crate::Error::Io)
flush(ok) ==
    [res |-> IF ok THEN Ok(<<>>) ELSE WriteFailed, log |-> <<WriteEv("flush", <<>>, ok)>>]

\* The for loop of write_sentences from sentence i on; the write numbered
\* fail fails, and after the last sentence the flush, which fails when fail
\* is one more than the sentences.
RECURSIVE WriteEach(_, _, _, _)
WriteEach(sentences, i, fail, log) ==
    IF i > Len(sentences)
    THEN [res |-> flush(fail # i).res, log |-> log \o flush(fail # i).log]
    ELSE IF write_literal(join_sentence(Sentences_encode(ServerCatalog, sentences[i])),
                          fail # i).res.kind # "Ok"
    THEN [res |-> write_literal(join_sentence(Sentences_encode(ServerCatalog, sentences[i])),
                                fail # i).res,
          log |-> log \o write_literal(join_sentence(Sentences_encode(ServerCatalog,
                                                                        sentences[i])),
                                       fail # i).log]
    ELSE WriteEach(sentences, i + 1, fail,
                   log \o write_literal(join_sentence(Sentences_encode(ServerCatalog,
                                                                         sentences[i])),
                                        fail # i).log)

\* A write_sentences that flushes after every sentence.
RECURSIVE FlushEach(_, _, _, _)
FlushEach(sentences, i, fail, log) ==
    IF i > Len(sentences)
    THEN [res |-> flush(fail # i).res, log |-> log \o flush(fail # i).log]
    ELSE IF fail = i
    THEN [res |-> WriteFailed,
          log |-> log \o <<WriteEv("write",
                              join_sentence(Sentences_encode(ServerCatalog, sentences[i])),
                              FALSE)>>]
    ELSE FlushEach(sentences, i + 1, fail,
                   log \o <<WriteEv("write",
                               join_sentence(Sentences_encode(ServerCatalog, sentences[i])),
                               TRUE),
                            WriteEv("flush", <<>>, TRUE)>>)

WriteSentencesFlushEach(sentences, fail) == FlushEach(sentences, 1, fail, <<>>)

\* write_sentences
write_sentences(sentences, fail) == WriteEach(sentences, 1, fail, <<>>)

\* write_sentence
write_sentence(sentence, fail) == WriteEach(<<sentence>>, 1, fail, <<>>)

\* write_cmd of Connection: the line of the command and a line end,
\* write_all, flush.
TcpConnection_write_cmd(cmd, fail) ==
    IF fail = 1
    THEN [res |-> WriteFailed, log |-> <<WriteEv("write", Command_line(cmd), FALSE)>>]
    ELSE [res |-> flush(fail # 2).res,
          log |-> <<WriteEv("write", Command_line(cmd), TRUE)>> \o flush(fail # 2).log]

NoWrite ==
    [op |-> "none", words |-> <<>>, sentences |-> <<>>, fail |-> 0,
     log |-> <<>>, res |-> Ok(<<>>)]

WriteIdle ==
    /\ wr_pc = "idle"
    /\ wr_call = NoWrite
    /\ wr_ops = 0

WriteInit ==
    /\ wr_pc = "open"
    /\ wr_call = NoWrite
    /\ wr_ops = 0

WriteCalled(op, words, sentences, fail, r) ==
    /\ wr_pc = "open"
    /\ wr_ops < MaxWriteOps
    /\ wr_call' = [op |-> op, words |-> words, sentences |-> sentences,
                   fail |-> fail, log |-> r.log, res |-> r.res]
    /\ wr_ops' = wr_ops + 1
    /\ UNCHANGED wr_pc
    /\ UNCHANGED notWrite

\* stream.write_sentence(&sentence)
WriteSentence ==
    \E sentence \in WriteSentences :
    \E fail \in 0..2 :
    \E r \in {write_sentence(sentence, fail)} :
       WriteCalled("write_sentence",
                   Sentences_encode(ServerCatalog, sentence), <<sentence>>, fail, r)

\* stream.write_sentences(&sentences)
WriteSentencesCall ==
    \E n \in 0..MaxSentences :
    \E sentences \in [1..n -> WriteSentences] :
    \E fail \in 0..(n + 1) :
    \E r \in {write_sentences(sentences, fail)} :
       WriteCalled("write_sentences", <<>>, sentences, fail, r)

\* connection.write_cmd(command)
WriteCmd ==
    \E cmd \in WriteCommands :
    \E fail \in 0..2 :
    \E r \in {TcpConnection_write_cmd(cmd, fail)} :
       WriteCalled("write_cmd", Command_words(cmd), <<>>, fail, r)

WriteNext ==
    \/ WriteSentence
    \/ WriteSentencesCall
    \/ WriteCmd

\* The lines of the sentences of the last call.
SentenceLines ==
    [i \in 1..Len(wr_call.sentences) |->
        join_sentence(Sentences_encode(ServerCatalog, wr_call.sentences[i]))]

\* C32: write_sentence writes the encoded line and then flushes once;
\* write_sentences writes the encoded lines in slice order with no flush
\* between them and flushes exactly once after the last one; if a write
\* fails, the remaining sentences are not written, no flush is performed
\* and the error is returned.
C32_WriteOrder ==
    wr_call.op \in {"write_sentence", "write_sentences"} =>
        \E m \in {IF wr_call.fail \in 1..Len(SentenceLines) THEN wr_call.fail
                  ELSE Len(SentenceLines)} :
            /\ Len(wr_call.log) >= m
            /\ \A i \in 1..m :
                  wr_call.log[i] = WriteEv("write", SentenceLines[i], i # wr_call.fail)
            /\ IF wr_call.fail \in 1..Len(SentenceLines)
               THEN /\ Len(wr_call.log) = m
                    /\ wr_call.res = WriteFailed
               ELSE /\ Len(wr_call.log) = m + 1
                    /\ wr_call.log[m + 1].ev = "flush"
                    /\ wr_call.res.kind = "Ok" <=> wr_call.fail = 0

\* C32, its case: two sentences were written in order and flushed once.
C32_Witness ==
    /\ wr_call.op = "write_sentences"
    /\ Len(wr_call.sentences) = 2
    /\ wr_call.sentences[1] # wr_call.sentences[2]
    /\ wr_call.fail = 0
    /\ Len(wr_call.log) = 3
    /\ wr_call.res.kind = "Ok"

\* C32, its other case: the first of two writes failed, and neither the
\* second sentence nor a flush followed.
C32_WitnessFailure ==
    /\ wr_call.op = "write_sentences"
    /\ Len(wr_call.sentences) = 2
    /\ wr_call.fail = 1
    /\ Len(wr_call.log) = 1
    /\ wr_call.res.kind = "Err"

\* The bytes of the request of the last call.
RequestBytes == wr_call.log[1].bytes

OneLine(bytes) == NewlineCount(bytes) = 1 /\ bytes[Len(bytes)] = NL

\* C38: every request an operation writes is exactly one protocol line: the
\* bytes written hold exactly one line end, as their last byte, for all
\* argument strings, and tokenizing the written line gives back the command
\* word followed by the arguments unchanged.
C38_OneLine ==
    wr_call.op \in {"write_sentence", "write_cmd"} =>
        /\ OneLine(RequestBytes)
        /\ split_sentence(RequestBytes).ok
        /\ split_sentence(RequestBytes).words = wr_call.words

\* C38, the case found: PASSWORD with a password that holds a line end was
\* written as two lines.
C38_Diverges ==
    /\ wr_call.op = "write_cmd"
    /\ wr_call.words = <<Kw.PASSWORD, <<"a", NL, "b">>>>
    /\ wr_call.fail = 0
    /\ NewlineCount(RequestBytes) = 2

\* C38, the case found on the sentence stream: USERNAME with such a name.
C38_DivergesSentence ==
    /\ wr_call.op = "write_sentence"
    /\ wr_call.words = <<WordText["Username"], <<"a", NL, "b">>>>
    /\ NewlineCount(RequestBytes) = 2

\* C38, the part that holds: with no line end in any argument the request
\* is one line, and in every case the words of the request read back are
\* the command word and the arguments.
C38_WithoutLineEnds ==
    wr_call.op \in {"write_sentence", "write_cmd"} =>
        /\ (\A i \in 1..Len(wr_call.words) : NewlineCount(wr_call.words[i]) = 0)
              => OneLine(RequestBytes)
        /\ split_sentence(RequestBytes).ok
        /\ split_sentence(RequestBytes).words = wr_call.words

(***************************************************************************)
(* Sentences::decode on any list of words (proto/mod.rs, proto/client.rs,  *)
(* proto/server.rs)                                                        *)
(***************************************************************************)
\* Longest list of words decoded.
MaxWords == 3

\* The words the lists are made of: four words of the protocol and a word
\* that is none.
DecodeWords ==
    {WordText["Ok"], WordText["Goodbye"], WordText["Err"], WordText["Type"], <<"a">>}

DecodeInputs == StrsUpTo(DecodeWords, MaxWords)

DecodeIdle ==
    /\ dc_pc = "idle"
    /\ dc_cat = "client"
    /\ dc_raw = <<>>
    /\ dc_res = DecodeNone

DecodeInit ==
    /\ dc_pc = "start"
    /\ dc_cat \in {"client", "server"}
    /\ dc_raw \in DecodeInputs
    /\ dc_res = DecodeNone

\* Sentences::decode(raw)
DecodeCall ==
    /\ dc_pc = "start"
    /\ dc_res' = Sentences_decode(Catalog(dc_cat), dc_raw)
    /\ dc_pc' = "decoded"
    /\ UNCHANGED <<dc_cat, dc_raw>>
    /\ UNCHANGED notDecode

\* The decoded sentence encoded again.
DecodeBack ==
    /\ dc_pc = "decoded"
    /\ dc_res.kind = "Some"
    /\ dc_res' = [kind |-> "Words",
                  words |-> Sentences_encode(Catalog(dc_cat), dc_res.sentence)]
    /\ dc_pc' = "encoded"
    /\ UNCHANGED <<dc_cat, dc_raw>>
    /\ UNCHANGED notDecode

DecodeNext == DecodeCall \/ DecodeBack

\* The variant of the sentence decoded.
Decoded == Variant(Catalog(dc_cat), dc_res.sentence.name)

\* The words of a pattern, its end of line not counted.
PatternLen(v) ==
    IF v.words[Len(v.words)] = "EOL" THEN Len(v.words) - 1 ELSE Len(v.words)

\* C33: Sentences::decode is total: for every word list it returns either a
\* sentence whose pattern the whole list matches or a decode failure; it
\* never aborts, as on ERR with no code or TYPE with a missing name, where
\* an argument slot falls on the end of line, and never yields a sentence
\* that is not variadic when words remain after its pattern, as on
\* OK Goodbye extra.
C33_Total ==
    dc_pc = "decoded" =>
        /\ dc_res.kind \in {"Some", "None"}
        /\ dc_res.kind = "Some" =>
              /\ PatternMatches(Decoded, decode_words(dc_raw))
              /\ Len(dc_raw) >= PatternLen(Decoded)
              /\ Decoded.vararg = <<>> => Len(dc_raw) = PatternLen(Decoded)

\* C33, the case found: ERR alone matched the pattern of RespondErr, its
\* argument slot on the end of line, and the binding of the code aborted.
C33_Diverges ==
    /\ dc_pc = "decoded"
    /\ dc_cat = "client"
    /\ dc_raw = <<WordText["Err"]>>
    /\ dc_res.kind = "Panic"

\* C33, the other case found: OK Goodbye and a word after it decoded as
\* LogoutOk.
C33_DivergesExtra ==
    /\ dc_pc = "decoded"
    /\ dc_cat = "client"
    /\ dc_raw = <<WordText["Ok"], WordText["Goodbye"], <<"a">>>>
    /\ dc_res.kind = "Some"
    /\ dc_res.sentence.name = "LogoutOk"

\* C33, the part that holds: a sentence decoded matches its pattern as
\* Word::matches has it; when the pattern ends with the end of line and
\* every word of the list is a word of the protocol, the list is as long as
\* the pattern; decode aborts only where a pattern that matches has an
\* argument slot at or after the end of the list.
C33_ClosedPatterns ==
    dc_pc = "decoded" =>
        /\ dc_res.kind = "Some" =>
              /\ PatternMatches(Decoded, decode_words(dc_raw))
              /\ (/\ Decoded.words[Len(Decoded.words)] = "EOL"
                  /\ \A i \in 1..Len(dc_raw) : Word_decode(dc_raw[i]) # "None") =>
                    Len(dc_raw) = PatternLen(Decoded)
        /\ dc_res.kind = "Panic" =>
              \E k \in 1..Len(Catalog(dc_cat)) :
                 /\ PatternMatches(Catalog(dc_cat)[k], decode_words(dc_raw))
                 /\ \E a \in 1..Len(Catalog(dc_cat)[k].args) :
                       Catalog(dc_cat)[k].args[a][1] >= Len(dc_raw)

(***************************************************************************)
(* The shape of the stream through the opening of a Client and of a        *)
(* Connection (blocking/client.rs, tokio/client.rs, blocking/mod.rs,       *)
(* tokio/mod.rs): a stream is its layers, the outermost first              *)
(***************************************************************************)
\* Most reads made on the open stream.
MaxShapeOps == 2

Drivers == {"Client", "Connection"}

\* ConnectionStream::Tcp(tcp_stream)
TcpShape == <<"Tcp">>

\* buffered(self), on layers
Shape_buffered(stream) == <<"Buffered">> \o stream

\* unbuffered(self), on layers
Shape_unbuffered(stream) == IF Head(stream) = "Buffered" THEN Tail(stream) ELSE stream

\* upgrade_ssl_client(self, ..), on layers
upgrade_ssl_client(stream) == <<"SslClient">> \o stream

ShapeIdle ==
    /\ sh_pc = "idle"
    /\ sh_api = "Client"
    /\ sh_surface = "blocking"
    /\ sh_cfg = [ssl |-> FALSE, ssl_insecure |-> FALSE, hostname |-> FALSE]
    /\ sh_feature = FALSE
    /\ sh_stream = TcpShape
    /\ sh_tls = FALSE
    /\ sh_upgrades = <<>>
    /\ sh_reads = <<>>
    /\ sh_ops = 0

\* A driver, a surface, a configuration (ssl, ssl_insecure, whether the
\* host has a name that is a DNS name) and whether the build has the TLS
\* feature of the surface; the TCP connection is made.
ShapeInit ==
    /\ sh_pc = "start"
    /\ sh_api \in Drivers
    /\ sh_surface \in Surfaces
    /\ sh_cfg \in [ssl : BOOLEAN, ssl_insecure : BOOLEAN, hostname : BOOLEAN]
    /\ sh_feature \in BOOLEAN
    /\ sh_stream = TcpShape
    /\ sh_tls = FALSE
    /\ sh_upgrades = <<>>
    /\ sh_reads = <<>>
    /\ sh_ops = 0

ShapeFixed == <<sh_api, sh_surface, sh_cfg, sh_feature>>

\* The struct is made: Client holds Tcp(..).buffered(), TcpConnection the
\* stream as it is.
ShapeConnect ==
    /\ sh_pc = "start"
    /\ sh_stream' = IF sh_api = "Client" THEN Shape_buffered(TcpShape) ELSE TcpShape
    /\ sh_pc' = "enable_ssl"
    /\ UNCHANGED <<sh_tls, sh_upgrades, sh_reads, sh_ops>>
    /\ UNCHANGED ShapeFixed
    /\ UNCHANGED notShape

\* enable_ssl built without the feature, or ssl not set: Ok(self).
ShapeSkipSsl ==
    /\ sh_pc = "enable_ssl"
    /\ ~(sh_feature /\ sh_cfg.ssl)
    /\ sh_pc' = "open"
    /\ UNCHANGED <<sh_stream, sh_tls, sh_upgrades, sh_reads, sh_ops>>
    /\ UNCHANGED ShapeFixed
    /\ UNCHANGED notShape

\* enable_ssl, the exchange of STARTTLS: Client reads a sentence from its
\* stream, TcpConnection a line through a reader of its own.
ShapeStartTls ==
    /\ sh_pc = "enable_ssl"
    /\ sh_feature /\ sh_cfg.ssl
    /\ sh_reads' = Append(sh_reads,
                          [kind |-> IF sh_api = "Client" THEN "sentence" ELSE "line",
                           stream |-> sh_stream])
    /\ \E acknowledged \in BOOLEAN :
          sh_pc' = IF acknowledged THEN "session" ELSE "failed"
    /\ UNCHANGED <<sh_stream, sh_tls, sh_upgrades, sh_ops>>
    /\ UNCHANGED ShapeFixed
    /\ UNCHANGED notShape

\* enable_ssl, the session: without ssl_insecure the host must have a name
\* that is a DNS name.
ShapeSession ==
    /\ sh_pc = "session"
    /\ sh_pc' = IF ~sh_cfg.ssl_insecure /\ ~sh_cfg.hostname THEN "failed"
                ELSE IF sh_api = "Client" THEN "unbuffer"
                ELSE "upgrade"
    /\ UNCHANGED <<sh_stream, sh_tls, sh_upgrades, sh_reads, sh_ops>>
    /\ UNCHANGED ShapeFixed
    /\ UNCHANGED notShape

\* Client::enable_ssl: self.stream = self.stream.unbuffered()
ShapeUnbuffer ==
    /\ sh_pc = "unbuffer"
    /\ sh_stream' = Shape_unbuffered(sh_stream)
    /\ sh_pc' = "upgrade"
    /\ UNCHANGED <<sh_tls, sh_upgrades, sh_reads, sh_ops>>
    /\ UNCHANGED ShapeFixed
    /\ UNCHANGED notShape

\* self.stream = self.stream.upgrade_ssl_client(..)?: on tokio the
\* handshake is made here and may fail.
ShapeUpgrade ==
    /\ sh_pc = "upgrade"
    /\ sh_upgrades' = Append(sh_upgrades, sh_stream)
    /\ \E connected \in (IF sh_surface = "tokio" THEN BOOLEAN ELSE {TRUE}) :
          IF connected
          THEN /\ sh_stream' = upgrade_ssl_client(sh_stream)
               /\ sh_tls' = TRUE
               /\ sh_pc' = IF sh_api = "Client" THEN "rebuffer" ELSE "open"
          ELSE /\ sh_pc' = "failed"
               /\ UNCHANGED <<sh_stream, sh_tls>>
    /\ UNCHANGED <<sh_reads, sh_ops>>
    /\ UNCHANGED ShapeFixed
    /\ UNCHANGED notShape

\* Client::enable_ssl: self.stream = self.stream.buffered()
ShapeRebuffer ==
    /\ sh_pc = "rebuffer"
    /\ sh_stream' = Shape_buffered(sh_stream)
    /\ sh_pc' = "open"
    /\ UNCHANGED <<sh_tls, sh_upgrades, sh_reads, sh_ops>>
    /\ UNCHANGED ShapeFixed
    /\ UNCHANGED notShape

\* An operation on the open stream reads its reply: Client a sentence from
\* its stream, TcpConnection a line through BufReader::new(&mut self.stream).
ShapeRead ==
    /\ sh_pc = "open"
    /\ sh_ops < MaxShapeOps
    /\ sh_reads' = Append(sh_reads,
                          [kind |-> IF sh_api = "Client" THEN "sentence" ELSE "line",
                           stream |-> sh_stream])
    /\ sh_ops' = sh_ops + 1
    /\ UNCHANGED <<sh_pc, sh_stream, sh_tls, sh_upgrades>>
    /\ UNCHANGED ShapeFixed
    /\ UNCHANGED notShape

ShapeNext ==
    \/ ShapeConnect
    \/ ShapeSkipSsl
    \/ ShapeStartTls
    \/ ShapeSession
    \/ ShapeUnbuffer
    \/ ShapeUpgrade
    \/ ShapeRebuffer
    \/ ShapeRead

\* upgrade_ssl_client was never called on a Buffered stream.
UpgradedUnbuffered ==
    \A i \in 1..Len(sh_upgrades) : Head(sh_upgrades[i]) # "Buffered"

\* A TLS adapter wraps a stream that is not Buffered.
TlsWrapsUnbuffered ==
    \A i \in 1..(Len(sh_stream) - 1) :
        sh_stream[i] = "SslClient" => sh_stream[i + 1] # "Buffered"

\* Every sentence was read from a Buffered stream.
SentencesFromBuffered ==
    \A i \in 1..Len(sh_reads) :
        sh_reads[i].kind = "sentence" => Head(sh_reads[i].stream) = "Buffered"

\* After a successful upgrade the stream is Buffered(SslClient(Tcp)).
UpgradedShape ==
    (sh_pc = "open" /\ sh_tls) => sh_stream = <<"Buffered", "SslClient", "Tcp">>

\* C34: whenever the connection driver calls upgrade_ssl_client the stream
\* is not in the Buffered variant, and after a successful upgrade the stream
\* has the shape Buffered(SslClient(Tcp)): in every reachable state a TLS
\* adapter wraps an unbuffered stream, and the stream is Buffered whenever a
\* sentence is read.
C34_Shape ==
    /\ UpgradedUnbuffered
    /\ UpgradedShape
    /\ TlsWrapsUnbuffered
    /\ SentencesFromBuffered

\* C34, the case found: a Connection opened with ssl holds SslClient(Tcp),
\* with no Buffered layer, and reads its replies from it.
C34_Diverges ==
    /\ sh_api = "Connection"
    /\ sh_pc = "open"
    /\ sh_tls
    /\ sh_stream = <<"SslClient", "Tcp">>
    /\ sh_reads # <<>>
    /\ sh_reads[Len(sh_reads)].stream = sh_stream

\* C34, the part that holds: on both drivers upgrade_ssl_client is called on
\* a stream that is not Buffered and a TLS adapter wraps one; a Client
\* upgraded holds Buffered(SslClient(Tcp)) and reads every sentence from a
\* Buffered stream.
C34_ClientShape ==
    /\ UpgradedUnbuffered
    /\ TlsWrapsUnbuffered
    /\ SentencesFromBuffered
    /\ sh_api = "Client" => UpgradedShape
    /\ (sh_api = "Client" /\ sh_pc = "open") => Head(sh_stream) = "Buffered"

(***************************************************************************)
(* The single-turn GET operations and the names their reply carries        *)
(* (cmd.rs: implement_get_commands!, Response::from_args)                  *)
(***************************************************************************)
\* The last call was a get_var that returned Ok.
GetVarReturnedOk == cn_last.op.name = "get_var" /\ cn_last.res.kind = "Ok"

\* The words of the one line the last call read.
ReplyWords == LineWords(ConnUsed[1])

\* C35: a single-turn GET operation returns Ok only when its one response
\* line has the expected type and echoes the ups name and the variable name
\* of the request: get_var(ups, name) returns Ok only for a reply
\* VAR ups name value with that same ups and name; a well-formed reply about
\* another ups or variable is a protocol error.
C35_Echo ==
    GetVarReturnedOk =>
        /\ Len(ConnUsed) = 1
        /\ Len(ReplyWords) = 4
        /\ ReplyWords[1] = Kw.VAR
        /\ ReplyWords[2] = cn_last.op.query[2]
        /\ ReplyWords[3] = cn_last.op.query[3]

\* C35, the case found: get_var for device.uptime of nutdev, answered with
\* the variable a of nutdev, returned Ok with the value of a.
C35_Diverges ==
    /\ cn_last.op = OpGetVar(Names.nutdev, Names.uptime)
    /\ cn_last.before = <<>>
    /\ cn_last.script = Reply(<<Line.var>>, FALSE)
    /\ cn_last.res.kind = "Ok"
    /\ cn_last.res.val[1].strs[1] = Names.a

\* C35, the part that holds: get_var returns Ok only when it read one line,
\* that line is a VAR line of at least four words, and the value returned is
\* made from the name and the value of that line.
C35_ExpectedType ==
    GetVarReturnedOk =>
        /\ Len(ConnUsed) = 1
        /\ Len(ReplyWords) >= 4
        /\ ReplyWords[1] = Kw.VAR
        /\ cn_last.res = Variable_parse(ReplyWords[3], ReplyWords[4])

(***************************************************************************)
(* read_list of TcpConnection, one line read at a time (blocking/mod.rs,   *)
(* tokio/mod.rs): the wait for BEGIN LIST and the loop                     *)
(***************************************************************************)
\* The item lines after which the model stops following a list; past the
\* cap the loop is said to have.
MaxListItems == 1002

\* What the server sends next when read_list reads a line: the start of the
\* list asked for, the start of another, an item, an END LIST, a refusal;
\* or nothing, closing the connection.
ListLines == {Line.begin_ups, Line.begin_var, Line.ups, Line.end_ups,
              ErrLine(StrUsernameRequired)}

ListWires == {<<l>> : l \in ListLines} \cup {<<>>}

\* parse_line and Response::from_args on the surface api.
SurfaceReadResponse(api, wire) ==
    IF api = "blocking" THEN read_response(wire, TRUE).res
    ELSE tokio_read_response(wire, TRUE).res

ListIdle ==
    /\ ll_pc = "idle"
    /\ ll_api = "blocking"
    /\ ll_len = 0
    /\ ll_reads = 0
    /\ ll_res = Ok(<<>>)

\* list_ups() has written LIST UPS and calls read_list(&["UPS"]).
ListInit ==
    /\ ll_pc = "begin"
    /\ ll_api \in Surfaces
    /\ ll_len = 0
    /\ ll_reads = 0
    /\ ll_res = Ok(<<>>)

ListReturns(res) ==
    /\ ll_res' = res
    /\ ll_pc' = IF res.kind = "Panic" THEN "aborted" ELSE "returned"
    /\ UNCHANGED ll_len

\* read_list up to the loop: parse_line, from_args, expect_begin_list.
ListBegin ==
    /\ ll_pc = "begin"
    /\ ll_reads' = ll_reads + 1
    /\ \E wire \in ListWires :
       \E r \in {SurfaceReadResponse(ll_api, wire)} :
          IF r.kind # "Ok" THEN ListReturns(r)
          ELSE IF expect_begin_list(r.val[1], OpListUps.query).kind # "Ok"
          THEN ListReturns(expect_begin_list(r.val[1], OpListUps.query))
          ELSE /\ ll_pc' = "reading"
               /\ UNCHANGED <<ll_len, ll_res>>
    /\ UNCHANGED ll_api
    /\ UNCHANGED notList

\* One iteration of the loop of read_list: parse_line, from_args, then the
\* break at an END LIST, with it Ok of the ll_len lines pushed, or
\* lines.push(resp).
ListRead ==
    /\ ll_pc = "reading"
    /\ ll_len < MaxListItems
    /\ ll_reads' = ll_reads + 1
    /\ \E wire \in ListWires :
       \E r \in {SurfaceReadResponse(ll_api, wire)} :
          IF r.kind # "Ok" THEN ListReturns(r)
          ELSE IF r.val[1].type = "EndList"
          THEN ListReturns(Ok(<<>>))
          ELSE /\ ll_len' = ll_len + 1
               /\ UNCHANGED <<ll_pc, ll_res>>
    /\ UNCHANGED ll_api
    /\ UNCHANGED notList

ListNext ==
    \/ ListBegin
    \/ ListRead

\* C36: every list operation of Connection terminates even when the server
\* keeps sending item lines and never sends END LIST: after reading at most
\* 1000 item lines it stops and returns an error.
C36_Capped ==
    /\ ll_len <= max_iter
    /\ ll_len = max_iter => (ll_pc = "returned" /\ ll_res.kind = "Err")

\* C36, the case found: more than 1000 item lines were read and pushed and
\* read_list is still in its loop.
C36_Diverges ==
    /\ ll_pc = "reading"
    /\ ll_len > max_iter
    /\ ll_reads = ll_len + 1

\* C36, the part that holds: the loop ends only at an END LIST, at a line
\* that is an error or cannot be read, or at the close of the connection;
\* every line before that was pushed.
C36_EndsAtEndList ==
    /\ ll_pc = "reading" => ll_reads = ll_len + 1
    /\ (ll_pc = "returned" /\ ll_res.kind = "Ok") => ll_reads = ll_len + 2
    /\ (ll_pc \in {"returned", "aborted"} /\ ll_res.kind # "Ok") =>
          ll_reads \in {ll_len + 1, ll_len + 2}

(***************************************************************************)
(* The close of the connection under a read of TcpConnection               *)
(* (blocking/mod.rs, tokio/mod.rs: parse_line)                             *)
(***************************************************************************)
\* The last call found no line to read and the server had closed.
ClosedBeforeReply ==
    /\ cn_last.op # NoOp
    /\ cn_last.script.close
    /\ cn_last.before \o cn_last.script.lines = <<>>

\* The last call was set_username answered with OK and the close, the line
\* end of OK not sent.
AnsweredOkCut ==
    /\ cn_last.op.name = "set_username"
    /\ cn_last.before = <<>>
    /\ cn_last.script = Reply(<<Line.ok_cut>>, TRUE)

\* C37: when the server closes the connection before sending a reply line,
\* read_response, read_plain_response and read_list of Connection return a
\* transport (I/O) error value, they do not abort, and a last line that
\* arrives without its terminating line end is not shortened by one
\* character before it is tokenized.
C37_CloseIsIoError ==
    /\ ClosedBeforeReply => (cn_last.res.kind = "Err" /\ cn_last.res.err.type = "Io")
    /\ AnsweredOkCut => cn_last.res.kind = "Ok"

\* C37, the case found: the server closed without a reply and the read of
\* the operation aborted.
C37_Diverges ==
    /\ ClosedBeforeReply
    /\ cn_last.op.family \in {"get", "list", "simple"}
    /\ cn_last.res = Panicked
    /\ cn_pc = "aborted"

\* C37, the other case found: OK arrived without its line end, the K was cut
\* off, and set_username failed on the word O.
C37_DivergesCut ==
    /\ AnsweredOkCut
    /\ cn_last.res.kind = "Err"
    /\ cn_last.res = Response_from_args(<<<<"O">>>>)

\* C37, the part that holds: the read of an operation that expects OK or a
\* plain line aborts only when the server has closed and no line is left to
\* read, and with the server closed and no line to read every operation
\* aborts; with its line end sent, OK is read whole.
C37_WholeLines ==
    /\ (cn_last.res.kind = "Panic" /\ cn_last.op.family \in {"simple", "action"}) =>
          (cn_last.script.close /\ cn_last.rest = <<>>)
    /\ ClosedBeforeReply => cn_last.res = Panicked
    /\ (cn_last.op.name = "set_username" /\ cn_last.before = <<>>
           /\ cn_last.script = Reply(<<Line.ok>>, FALSE)) => cn_last.res.kind = "Ok"

(***************************************************************************)
(* Specifications: one per subsystem, the others held idle.                *)
(***************************************************************************)
InitTok ==
    TokInit /\ CodecIdle /\ ErrIdle /\ StreamIdle /\ ConnIdle
        /\ OpenIdle /\ UntilIdle /\ FailIdle /\ ExclIdle
        /\ HostIdle /\ VarsIdle /\ PairIdle /\ BufIdle
        /\ WriteIdle /\ DecodeIdle /\ ShapeIdle /\ ListIdle

SpecTok == InitTok /\ [][TokNext]_vars

InitCodec ==
    CodecInit /\ TokIdle /\ ErrIdle /\ StreamIdle /\ ConnIdle
        /\ OpenIdle /\ UntilIdle /\ FailIdle /\ ExclIdle
        /\ HostIdle /\ VarsIdle /\ PairIdle /\ BufIdle
        /\ WriteIdle /\ DecodeIdle /\ ShapeIdle /\ ListIdle

SpecCodec == InitCodec /\ [][CodecNext]_vars

InitErr ==
    ErrInit /\ TokIdle /\ CodecIdle /\ StreamIdle /\ ConnIdle
        /\ OpenIdle /\ UntilIdle /\ FailIdle /\ ExclIdle
        /\ HostIdle /\ VarsIdle /\ PairIdle /\ BufIdle
        /\ WriteIdle /\ DecodeIdle /\ ShapeIdle /\ ListIdle

SpecErr == InitErr /\ [][ErrNext]_vars

InitStream ==
    StreamInit /\ TokIdle /\ CodecIdle /\ ErrIdle /\ ConnIdle
        /\ OpenIdle /\ UntilIdle /\ FailIdle /\ ExclIdle
        /\ HostIdle /\ VarsIdle /\ PairIdle /\ BufIdle
        /\ WriteIdle /\ DecodeIdle /\ ShapeIdle /\ ListIdle

SpecStream == InitStream /\ [][StreamNext]_vars

InitConn ==
    ConnInit /\ TokIdle /\ CodecIdle /\ ErrIdle /\ StreamIdle
        /\ OpenIdle /\ UntilIdle /\ FailIdle /\ ExclIdle
        /\ HostIdle /\ VarsIdle /\ PairIdle /\ BufIdle
        /\ WriteIdle /\ DecodeIdle /\ ShapeIdle /\ ListIdle

SpecConn == InitConn /\ [][ConnNext]_vars

InitOpen ==
    OpenInit /\ TokIdle /\ CodecIdle /\ ErrIdle /\ StreamIdle
        /\ ConnIdle /\ UntilIdle /\ FailIdle /\ ExclIdle
        /\ HostIdle /\ VarsIdle /\ PairIdle /\ BufIdle
        /\ WriteIdle /\ DecodeIdle /\ ShapeIdle /\ ListIdle

SpecOpen == InitOpen /\ [][OpenNext]_vars

InitUntil ==
    UntilInit /\ TokIdle /\ CodecIdle /\ ErrIdle /\ StreamIdle
        /\ ConnIdle /\ OpenIdle /\ FailIdle /\ ExclIdle
        /\ HostIdle /\ VarsIdle /\ PairIdle /\ BufIdle
        /\ WriteIdle /\ DecodeIdle /\ ShapeIdle /\ ListIdle

SpecUntil == InitUntil /\ [][UntilNext]_vars

InitFail ==
    FailInit /\ TokIdle /\ CodecIdle /\ ErrIdle /\ StreamIdle
        /\ ConnIdle /\ OpenIdle /\ UntilIdle /\ ExclIdle
        /\ HostIdle /\ VarsIdle /\ PairIdle /\ BufIdle
        /\ WriteIdle /\ DecodeIdle /\ ShapeIdle /\ ListIdle

SpecFail == InitFail /\ [][FailNext]_vars

InitExcl ==
    ExclInit /\ TokIdle /\ CodecIdle /\ ErrIdle /\ StreamIdle
        /\ ConnIdle /\ OpenIdle /\ UntilIdle /\ FailIdle
        /\ HostIdle /\ VarsIdle /\ PairIdle /\ BufIdle
        /\ WriteIdle /\ DecodeIdle /\ ShapeIdle /\ ListIdle

SpecExcl == InitExcl /\ [][ExclNext]_vars

InitHost ==
    HostInit /\ TokIdle /\ CodecIdle /\ ErrIdle /\ StreamIdle
        /\ ConnIdle /\ OpenIdle /\ UntilIdle /\ FailIdle
        /\ ExclIdle /\ VarsIdle /\ PairIdle /\ BufIdle
        /\ WriteIdle /\ DecodeIdle /\ ShapeIdle /\ ListIdle

SpecHost == InitHost /\ [][HostNext]_vars

InitVars ==
    VarsInit /\ TokIdle /\ CodecIdle /\ ErrIdle /\ StreamIdle
        /\ ConnIdle /\ OpenIdle /\ UntilIdle /\ FailIdle
        /\ ExclIdle /\ HostIdle /\ PairIdle /\ BufIdle
        /\ WriteIdle /\ DecodeIdle /\ ShapeIdle /\ ListIdle

SpecVars == InitVars /\ [][VarsNext]_vars

InitPair ==
    PairInit /\ TokIdle /\ CodecIdle /\ ErrIdle /\ StreamIdle
        /\ ConnIdle /\ OpenIdle /\ UntilIdle /\ FailIdle
        /\ ExclIdle /\ HostIdle /\ VarsIdle /\ BufIdle
        /\ WriteIdle /\ DecodeIdle /\ ShapeIdle /\ ListIdle

SpecPair == InitPair /\ [][PairNext]_vars

InitBuf ==
    BufInit /\ TokIdle /\ CodecIdle /\ ErrIdle /\ StreamIdle
        /\ ConnIdle /\ OpenIdle /\ UntilIdle /\ FailIdle
        /\ ExclIdle /\ HostIdle /\ VarsIdle /\ PairIdle
        /\ WriteIdle /\ DecodeIdle /\ ShapeIdle /\ ListIdle

SpecBuf == InitBuf /\ [][BufNext]_vars

InitWrite ==
    WriteInit /\ TokIdle /\ CodecIdle /\ ErrIdle /\ StreamIdle
        /\ ConnIdle /\ OpenIdle /\ UntilIdle /\ FailIdle
        /\ ExclIdle /\ HostIdle /\ VarsIdle /\ PairIdle
        /\ BufIdle /\ DecodeIdle /\ ShapeIdle /\ ListIdle

SpecWrite == InitWrite /\ [][WriteNext]_vars

InitDecode ==
    DecodeInit /\ TokIdle /\ CodecIdle /\ ErrIdle /\ StreamIdle
        /\ ConnIdle /\ OpenIdle /\ UntilIdle /\ FailIdle
        /\ ExclIdle /\ HostIdle /\ VarsIdle /\ PairIdle
        /\ BufIdle /\ WriteIdle /\ ShapeIdle /\ ListIdle

SpecDecode == InitDecode /\ [][DecodeNext]_vars

InitShape ==
    ShapeInit /\ TokIdle /\ CodecIdle /\ ErrIdle /\ StreamIdle
        /\ ConnIdle /\ OpenIdle /\ UntilIdle /\ FailIdle
        /\ ExclIdle /\ HostIdle /\ VarsIdle /\ PairIdle
        /\ BufIdle /\ WriteIdle /\ DecodeIdle /\ ListIdle

SpecShape == InitShape /\ [][ShapeNext]_vars

InitList ==
    ListInit /\ TokIdle /\ CodecIdle /\ ErrIdle /\ StreamIdle
        /\ ConnIdle /\ OpenIdle /\ UntilIdle /\ FailIdle
        /\ ExclIdle /\ HostIdle /\ VarsIdle /\ PairIdle
        /\ BufIdle /\ WriteIdle /\ DecodeIdle /\ ShapeIdle

SpecList == InitList /\ [][ListNext]_vars

InitSession ==
    SessionInit /\ TokIdle /\ CodecIdle /\ ErrIdle /\ StreamIdle
        /\ ConnIdle /\ UntilIdle /\ FailIdle /\ ExclIdle
        /\ HostIdle /\ VarsIdle /\ PairIdle /\ BufIdle
        /\ WriteIdle /\ DecodeIdle /\ ShapeIdle /\ ListIdle

SpecSession == InitSession /\ [][SessionNext]_vars

=============================================================================
